---- MODULE Spec2Model ----
(***************************************************************************)
(* Scroll indicators: the visibility/state engine of                       *)
(* muminoco/scroll-indicators.                                             *)
(*                                                                         *)
(* The repository holds three copies of the engine, and the variable       *)
(* `build` says which one the page has loaded:                             *)
(*   "current"  core/utils.js:244-462 + events.js:1-202 + utils.js         *)
(*              (container wrapper, click targets, resize and visibility   *)
(*              handling, cleanup handle)                                  *)
(*   "previous" the same orchestrator with the older events.js:203-337     *)
(*              (no visibility check, no resize listener, no cleanup)      *)
(*   "legacy"   config.js:38-163 + unnamed/part_001 + core/utils.js:1-243  *)
(*              (class ScrollIndicators, the region is its own container)  *)
(*                                                                         *)
(* Lengths are whole pixels.  The document is two containers in document   *)
(* order, each with one indicator element and one click-target element.    *)
(* A click asks for a smooth scroll and returns; the region reaches the    *)
(* target, and its scroll event is dispatched, in a later step             *)
(* (SmoothScrollSettles).                                                  *)
(*                                                                         *)
(* The specifications share the operations:                                *)
(*   Spec      one container under every event (scroll, frame, resize,     *)
(*             hide/show, click) beside a container without a region       *)
(*   SpecPage  a page of two arbitrary containers that is initialised,     *)
(*             cleaned up and resized, with setups that may raise          *)
(*   SpecWatch the current build with regions that are shown, in a browser *)
(*             with or without IntersectionObserver; frames are fair       *)
(*   SpecClick a page of two containers whose regions are moved by clicks  *)
(*             only; frames, timers and smooth scrolls are fair            *)
(*   SpecRegistry  the legacy registry (addContainer, removeContainer)     *)
(*   SpecNested    the current build on a page with nested containers      *)
(*   SpecFunctions the pure functions, one input each                      *)
(***************************************************************************)
EXTENDS Integers, Sequences, FiniteSets, TLC

\* ------------------------------------------------------------------ bounds
\* how many times the page may call initialize()
MaxInits == 2
\* how many scroll events of one region are followed between two frames
MaxBurst == 2

\* --------------------------------------------------------------- constants
\* CONFIG.SCROLL_THRESHOLD
SCROLL_THRESHOLD == 1

\* CONFIG.SCROLL_BEHAVIOR
SCROLL_BEHAVIOR == "smooth"

VISIBLE == "is-visible"
HIDDEN == "is-hidden"
IS_CLICK_TARGET == "is-click-target"

Builds == {"current", "previous", "legacy"}
Containers == {"c1", "c2"}
DocOrder == <<"c1", "c2">>
Kinds == {"indicator", "clickTarget"}

\* the markup of one container: the axis marker of its scrollable region
\* ("absent": the container holds no element with the marker), the side marker
\* of its indicator, the side marker of its click target, its click marker
Profiles ==
  { [axis |-> "horizontal", indicator |-> "start",  clickTarget |-> " End ",  click |-> "true"],
    [axis |-> " Vertical ", indicator |-> "end",    clickTarget |-> "start",  click |-> "false"],
    [axis |-> "horizontal", indicator |-> "middle", clickTarget |-> "start",  click |-> " TRUE "],
    [axis |-> "horizontal", indicator |-> "middle", clickTarget |-> "",       click |-> "true"],
    [axis |-> "diagonal",   indicator |-> "start",  clickTarget |-> "end",    click |-> "true"],
    [axis |-> "absent",     indicator |-> "start",  clickTarget |-> "end",    click |-> "true"] }

\* where a DOM call of a container's setup raises: nowhere, at the region's
\* addEventListener('scroll'), or at a click target's addEventListener('click')
Faults == {"none", "scroll", "click"}

\* the window is 4 or 8 pixels wide and the content of every region 8 pixels
\* long: a region overflows by 4 pixels in the narrow window and by none in
\* the wide one
WinSizes == {4, 8}

VARIABLES
  build,            \* which copy of the engine is loaded
  profile,          \* [Containers -> Profiles], the markup
  itemOffsets,      \* legacy build: the offsets of the items registered in every region
  observerSupported, \* window.IntersectionObserver exists
  arg,              \* the input of the function applied under SpecFunctions
  res,              \* the result of the function applied under SpecFunctions, or NotApplied
  rendered,         \* [Containers -> BOOLEAN], FALSE: display none, zero extent
  winSize,          \* the window's (and every rendered region's) viewport extent
  scrollPos,        \* [Containers -> Nat], scrollLeft / scrollTop
  classes,          \* [Containers -> [Kinds -> SUBSET class names]]
  scrollL,          \* [Containers -> Nat], scroll listeners on the region
  rafQ,             \* [Containers -> Nat], listeners with scrollUpdateRequested set
  handle,           \* [Containers -> {"none","resize","resize+observer"}], _scrollIndicatorsCleanup
  resizeLeaked,     \* [Containers -> Nat], resize listeners no stored handle removes
  observerLeaked,   \* [Containers -> Nat], observers no stored handle disconnects
  debHandle,        \* [Containers -> BOOLEAN], the handle's resize listener has a pending timer
  debLeaked,        \* [Containers -> Nat], leaked resize listeners with a pending timer
  debOrphan,        \* [Containers -> Nat], pending timers of removed resize listeners
  clickL,           \* [Containers -> Nat], click listeners on the click target
  keyL,             \* [Containers -> Nat], keydown listeners on the click target
  initCalls,        \* calls of initialize() so far
  initReturn,       \* how the last initialize() ended: a Returned(..) or Threw
  activated,        \* containers the last initialize() set up to completion
  faulted,          \* [Containers -> Faults], the DOM calls that raised in the last initialize()
  warned,           \* containers the last initialize() logged a rejection for
  initialized,      \* legacy build: ScrollIndicators.initialized
  registry,         \* legacy build: ScrollIndicators.containers
  winResizeL,       \* legacy build: handleResize listeners on the window
  settleQ,          \* legacy build: [Containers -> Nat], pending 100 ms refresh timers
  refreshRuns,      \* [Containers -> Nat], refresh invocations in the step just taken
  refreshApplied,   \* [Containers -> BOOLEAN], the refresh of the step just taken returned true
  scrollRecomputes, \* [Containers -> Nat], recomputes run for the scroll events of one frame
  lastClick,        \* the activation of the step just taken, or NoClick
  threshold,        \* CONFIG.SCROLL_THRESHOLD
  arrowL,           \* legacy build: [Containers -> Nat], the scroll listeners addContainer added
  behavior,         \* CONFIG.SCROLL_BEHAVIOR
  scrollEvt,        \* [Containers -> BOOLEAN], a scroll event of the region waits to be dispatched
  smooth,           \* [Containers -> Nat], the target of the smooth scroll under way, or NoTarget
  arrived           \* the region whose smooth scroll reached its target in the step just taken

domVars == <<rendered, winSize, scrollPos>>
listenerVars == <<scrollL, handle, resizeLeaked, observerLeaked, clickL, keyL>>
queueVars == <<rafQ, debHandle, debLeaked, debOrphan>>
initVars == <<initCalls, initReturn, activated, faulted, warned>>
staticVars == <<build, profile, itemOffsets, observerSupported, arg, res>>
legacyVars == <<initialized, registry, winResizeL, settleQ>>
publicVars == <<threshold, arrowL, behavior>>
vars == <<staticVars, domVars, classes, listenerVars, queueVars, initVars, legacyVars,
          refreshRuns, refreshApplied, scrollRecomputes, lastClick, publicVars, scrollEvt, smooth,
          arrived>>

NoClick == [c |-> "none", requests |-> 0]

\* no smooth scroll under way: scrollTo / scrollBy with behavior 'smooth' return
\* at once, the offset reaches the target in later frames
NoTarget == -1
NoSmooth == [c \in Containers |-> NoTarget]
NoArrival == "none"

\* no scroll event waits to be dispatched
NoScrollEvent == [c \in Containers |-> FALSE]

Max(a, b) == IF a >= b THEN a ELSE b
Min(a, b) == IF a <= b THEN a ELSE b

\* ------------------------------------------------------- markup and parsing
Null == "null"

\* String.prototype.trim() followed by toLowerCase(), on the marker values of
\* the modelled markup
TrimLower(s) ==
  CASE s = " End " -> "end"
    [] s = " Vertical " -> "vertical"
    [] s = " TRUE " -> "true"
    [] OTHER -> s

\* validatePosition: the indicator's side, or null
validatePosition(attr) ==
  IF attr = "absent" \/ TrimLower(attr) = "" THEN Null
  ELSE IF TrimLower(attr) \notin {"start", "end"} THEN Null
  ELSE TrimLower(attr)

\* validateClickTargetPosition: the click target's side, or null
validateClickTargetPosition(attr) ==
  IF attr = "absent" \/ TrimLower(attr) = "" THEN Null
  ELSE IF TrimLower(attr) \notin {"start", "end"} THEN Null
  ELSE TrimLower(attr)

\* validateDirection: the region's axis, or null
validateDirection(attr) ==
  IF attr = "absent" \/ TrimLower(attr) = "" THEN Null
  ELSE IF TrimLower(attr) \notin {"horizontal", "vertical"} THEN Null
  ELSE TrimLower(attr)

\* validateContainer of the legacy build: the marker must be exactly one of the two
validateContainer(attr) ==
  attr # "absent" /\ attr # "" /\ attr \in {"horizontal", "vertical"}

\* the side under which the build binds the element of kind k of container c
\* to the region: the click-target build validates the marker, the legacy
\* build selects [position="start"] and [position="end"] and knows no click
\* target
Side(b, c, k) ==
  IF b = "legacy"
    THEN IF k = "indicator" /\ profile[c].indicator \in {"start", "end"}
           THEN profile[c].indicator ELSE Null
    ELSE IF k = "indicator" THEN validatePosition(profile[c].indicator)
         ELSE validateClickTargetPosition(profile[c].clickTarget)

\* ------------------------------------------------------------ scroll metrics
ContentExtent == 8

\* element.clientWidth / clientHeight, scrollWidth / scrollHeight and
\* scrollLeft / scrollTop: all zero while the region is not rendered
clientExtent(isRendered, win) == IF isRendered THEN win ELSE 0
scrollExtent(isRendered) == IF isRendered THEN ContentExtent ELSE 0
scrollOffset(isRendered, pos) == IF isRendered THEN pos ELSE 0

maxScrollReversed(isRendered, win) == clientExtent(isRendered, win) - scrollExtent(isRendered)

maxScroll(isRendered, win) == scrollExtent(isRendered) - clientExtent(isRendered, win)

\* what the browser makes of a requested scroll offset
ClampToRange(target, isRendered, win) ==
  Max(0, Min(target, Max(0, maxScroll(isRendered, win))))

isAtStartWide(offset) == offset <= 3 * threshold

isAtStart(offset) == offset <= threshold

isAtEndStrict(offset, scrollSize, clientSize) ==
  offset > (scrollSize - clientSize) - threshold

isAtEnd(offset, scrollSize, clientSize) ==
  offset >= (scrollSize - clientSize) - threshold

\* the region is rendered with a non-zero extent
isElementVisible(isRendered, win) == clientExtent(isRendered, win) > 0

\* ---------------------------------------------------------- visibility engine
ShouldBeVisibleSwapped(position, atStart, atEnd) ==
  IF position = "start" THEN ~atEnd
  ELSE IF position = "end" THEN ~atStart
  ELSE FALSE

\* the start/end rule
ShouldBeVisible(position, atStart, atEnd) ==
  IF position = "start" THEN ~atStart
  ELSE IF position = "end" THEN ~atEnd
  ELSE FALSE

SetVisibilityToggle(cls, shouldBeVisible) ==
  IF shouldBeVisible
    THEN (IF VISIBLE \in cls THEN cls \ {VISIBLE} ELSE (cls \ {HIDDEN}) \cup {VISIBLE})
    ELSE (IF HIDDEN \in cls THEN cls \ {HIDDEN} ELSE (cls \ {VISIBLE}) \cup {HIDDEN})

\* classList.remove of the one class and classList.add of the other
SetVisibility(cls, shouldBeVisible) ==
  IF shouldBeVisible THEN (cls \ {HIDDEN}) \cup {VISIBLE}
  ELSE (cls \ {VISIBLE}) \cup {HIDDEN}

\* the value updateIndicatorVisibility returns in the current build; the
\* previous and the legacy build make no visibility check and always write
RefreshApplies(b, isRendered, win) ==
  IF b = "current" THEN isElementVisible(isRendered, win) ELSE TRUE

RefreshedClassesAll(c, cls, isRendered, pos, win) ==
  [k \in Kinds |-> IF isAtStart(scrollOffset(isRendered, pos)) THEN {HIDDEN} ELSE {VISIBLE}]

\* updateIndicatorVisibility / updateIndicators: the classes of container c's
\* elements after one refresh against the given geometry
RefreshedClasses(c, cls, isRendered, pos, win) ==
  IF ~RefreshApplies(build, isRendered, win) THEN cls
  ELSE LET atStart == isAtStart(scrollOffset(isRendered, pos))
           atEnd == isAtEnd(scrollOffset(isRendered, pos), scrollExtent(isRendered),
                            clientExtent(isRendered, win))
       IN [k \in Kinds |->
             IF Side(build, c, k) = Null THEN cls[k]
             ELSE SetVisibility(cls[k], ShouldBeVisible(Side(build, c, k), atStart, atEnd))]


\* ------------------------------------------------------ container orchestrator
B2N(b) == IF b THEN 1 ELSE 0

Zero == [c \in Containers |-> 0]
NoRefresh == [c \in Containers |-> FALSE]
NoFault == [c \in Containers |-> "none"]

\* setupClickHandlers' test of the container's click marker
clickEnabled(attr) == attr # "absent" /\ attr # "" /\ TrimLower(attr) = "true"

\* setupScrollContainer's validation: a region, a recognised axis, and at least
\* one validly tagged indicator or click target
Validated(c) ==
  /\ profile[c].axis # "absent"
  /\ validateDirection(profile[c].axis) # Null
  /\ \/ validatePosition(profile[c].indicator) # Null
     \/ validateClickTargetPosition(profile[c].clickTarget) # Null

\* container c as a setup that returns early leaves it
Untouched(c) ==
  [ok |-> FALSE, threw |-> FALSE, warn |-> FALSE, runs |-> 0, applied |-> FALSE,
   scrollL |-> scrollL[c], classes |-> classes[c], handle |-> handle[c],
   resizeLeaked |-> resizeLeaked[c], observerLeaked |-> observerLeaked[c],
   debHandle |-> debHandle[c], debLeaked |-> debLeaked[c],
   clickL |-> clickL[c], keyL |-> keyL[c]]

\* setupScrollContainer with setupScrollListener and setupClickHandlers, for
\* the current and the previous build: what one run does to container c when
\* the DOM call named by f raises
setupScrollContainer(c, f) ==
  LET applied == RefreshApplies(build, rendered[c], winSize)
      cls1 == RefreshedClasses(c, classes[c], rendered[c], scrollPos[c], winSize)
      withClick == clickEnabled(profile[c].click)
                     /\ validateClickTargetPosition(profile[c].clickTarget) # Null
      cls2 == IF withClick
                THEN [cls1 EXCEPT !["clickTarget"] = @ \cup {IS_CLICK_TARGET}]
                ELSE cls1
      resizeAdded == build = "current"
      observerAdded == build = "current" /\ ~applied /\ observerSupported
      listening == [Untouched(c) EXCEPT !.runs = 1, !.applied = applied,
                                        !.scrollL = @ + 1, !.classes = cls2]
  IN IF ~Validated(c) THEN [Untouched(c) EXCEPT !.warn = TRUE]
     ELSE IF f = "scroll" THEN [Untouched(c) EXCEPT !.threw = TRUE]
     ELSE IF withClick /\ f = "click"
       THEN [listening EXCEPT !.threw = TRUE,
                              !.resizeLeaked = @ + B2N(resizeAdded),
                              !.observerLeaked = @ + B2N(observerAdded)]
     ELSE IF build = "current"
       THEN [listening EXCEPT !.ok = TRUE,
                              !.clickL = @ + B2N(withClick), !.keyL = @ + B2N(withClick),
                              !.resizeLeaked = @ + B2N(handle[c] # "none"),
                              !.observerLeaked = @ + B2N(handle[c] = "resize+observer"),
                              !.debLeaked = @ + B2N(debHandle[c]),
                              !.debHandle = FALSE,
                              !.handle = IF observerAdded THEN "resize+observer" ELSE "resize"]
     ELSE [listening EXCEPT !.ok = TRUE,
                            !.clickL = @ + B2N(withClick), !.keyL = @ + B2N(withClick)]

\* initializeScrollIndicators' loop wraps each container's setup in try/catch:
\* an exception of the setup of container c is caught and logged
SetupErrorCaught(c, f) == TRUE

\* the loop reaches its i-th container unless an exception has left it
Reached(i, f) ==
  \A j \in 1..(i - 1) :
     setupScrollContainer(DocOrder[j], f[DocOrder[j]]).threw => SetupErrorCaught(DocOrder[j], f)

\* how a call ends: it returns a value of some type, or an exception leaves it
NotCalled == [kind |-> "not called", n |-> 0]
Threw == [kind |-> "threw", n |-> 0]
Undefined == [kind |-> "undefined", n |-> 0]

\* initializeScrollIndicators has no return statement with a value: the
\* success count n goes to the log only
InitReturnValue(n) == Undefined

\* initializeScrollIndicators of the current and the previous build, with the
\* DOM calls named by f raising
initializeScrollIndicators(f) ==
  /\ build \in {"current", "previous"}
  /\ initCalls < MaxInits
  /\ LET reached == { DocOrder[i] : i \in { j \in 1..Len(DocOrder) : Reached(j, f) } }
         propagates == \E c \in reached : setupScrollContainer(c, f[c]).threw
                                          /\ ~SetupErrorCaught(c, f)
         out == [c \in Containers |->
                   IF c \in reached THEN setupScrollContainer(c, f[c]) ELSE Untouched(c)]
         successCount == Cardinality({c \in Containers : out[c].ok})
     IN /\ scrollL' = [c \in Containers |-> out[c].scrollL]
        /\ classes' = [c \in Containers |-> out[c].classes]
        /\ handle' = [c \in Containers |-> out[c].handle]
        /\ resizeLeaked' = [c \in Containers |-> out[c].resizeLeaked]
        /\ observerLeaked' = [c \in Containers |-> out[c].observerLeaked]
        /\ debHandle' = [c \in Containers |-> out[c].debHandle]
        /\ debLeaked' = [c \in Containers |-> out[c].debLeaked]
        /\ clickL' = [c \in Containers |-> out[c].clickL]
        /\ keyL' = [c \in Containers |-> out[c].keyL]
        /\ refreshRuns' = [c \in Containers |-> out[c].runs]
        /\ refreshApplied' = [c \in Containers |-> out[c].applied]
        /\ warned' = {c \in Containers : out[c].warn}
        /\ initReturn' = IF propagates THEN Threw ELSE InitReturnValue(successCount)
        /\ activated' = {c \in Containers : out[c].ok}
        /\ faulted' = f
  /\ initCalls' = initCalls + 1
  /\ lastClick' = NoClick /\ arrived' = NoArrival
  /\ UNCHANGED <<staticVars, publicVars, scrollEvt, smooth, domVars, rafQ, debOrphan, legacyVars, scrollRecomputes>>

cleanupScrollIndicatorsAll ==
  /\ build \in {"current", "previous"}
  /\ initCalls > 0
  /\ handle' = [c \in Containers |-> "none"]
  /\ scrollL' = [c \in Containers |-> Max(0, scrollL[c] - 1)]
  /\ debOrphan' = [c \in Containers |-> debOrphan[c] + B2N(debHandle[c])]
  /\ debHandle' = NoRefresh
  /\ refreshRuns' = Zero
  /\ refreshApplied' = NoRefresh
  /\ lastClick' = NoClick /\ arrived' = NoArrival
  /\ UNCHANGED <<staticVars, publicVars, scrollEvt, smooth, domVars, classes, resizeLeaked, observerLeaked,
                 clickL, keyL, rafQ, debLeaked, initVars, legacyVars, scrollRecomputes>>

\* cleanupScrollIndicators: runs and deletes every stored cleanup handle; the
\* handle removes its resize listener and disconnects its observer, nothing
\* else, and a timer its debounce already started stays pending
cleanupScrollIndicators ==
  /\ build \in {"current", "previous"}
  /\ initCalls > 0
  /\ handle' = [c \in Containers |-> "none"]
  /\ debOrphan' = [c \in Containers |-> debOrphan[c] + B2N(debHandle[c])]
  /\ debHandle' = NoRefresh
  /\ refreshRuns' = Zero
  /\ refreshApplied' = NoRefresh
  /\ lastClick' = NoClick /\ arrived' = NoArrival
  /\ UNCHANGED <<staticVars, publicVars, scrollEvt, smooth, domVars, classes, scrollL, resizeLeaked, observerLeaked,
                 clickL, keyL, rafQ, debLeaked, initVars, legacyVars, scrollRecomputes>>

\* ------------------------------------------------------------ scroll actuator
\* CONFIG.DEFAULT_SCROLL of the current build
FIXED_AMOUNT == "25%"
SCROLL_TO_END == FALSE

\* the values of the click-distance marker an activation may find on its target
DistAttrs == {"absent", "end", "200px"}

\* further values of the marker: a negative number, percentages, an upper-case
\* boundary word, a unit without a number, a word that is no distance, the
\* legacy build's item stepping and its 'start'
MoreDistAttrs == {"", "-200px", "50%", "-50%", " END ", "px", "abc", "next", "start"}

\* String.prototype.trim() followed by toLowerCase(), on the distance specs in use
TrimLowerSpec(spec) == IF spec = " END " THEN "end" ELSE spec

\* String.prototype.trim() on the distance specs in use
TrimSpec(spec) == IF spec = " END " THEN "END" ELSE spec

\* parseFloat of the distance specs in use: the number, where there is one
SpecNumber(spec) ==
  CASE spec = "200px" -> 200 [] spec = "-200px" -> -200
    [] spec = "25%" -> 25 [] spec = "50%" -> 50 [] spec = "-50%" -> -50
    [] OTHER -> 0

\* isNaN(parseFloat(spec)) of the distance specs in use
SpecIsNaN(spec) == spec \notin {"200px", "-200px", "25%", "50%", "-50%"}

\* the unit suffix endsWith() finds on the distance specs in use
SpecUnit(spec) ==
  CASE spec \in {"200px", "-200px", "px"} -> "px"
    [] spec \in {"25%", "50%", "-50%"} -> "%"
    [] OTHER -> spec

Abs(n) == IF n < 0 THEN -n ELSE n

\* the BOUNDARY sentinel ('end') and a pixel count, as parseScrollAmount returns them
BOUNDARY == [end |-> TRUE, px |-> 0]
Pixels(n) == [end |-> FALSE, px |-> n]

RECURSIVE parseScrollAmount(_, _)
\* parseScrollAmount on the specs in use: "end", a pixel count, a percentage of
\* the container's client extent, and the configured default for no spec, for
\* a unit without a number and for any other word
parseScrollAmount(spec, containerSize) ==
  IF spec = "absent" \/ TrimLowerSpec(spec) = ""
    THEN (IF SCROLL_TO_END THEN BOUNDARY ELSE parseScrollAmount(FIXED_AMOUNT, containerSize))
  ELSE LET amount == TrimLowerSpec(spec)
       IN IF amount = "end" THEN BOUNDARY
          ELSE IF SpecUnit(amount) = "px"
            THEN (IF SpecIsNaN(amount) THEN parseScrollAmount(FIXED_AMOUNT, containerSize)
                  ELSE Pixels(Abs(SpecNumber(amount))))
          ELSE IF SpecUnit(amount) = "%"
            THEN (IF SpecIsNaN(amount) THEN parseScrollAmount(FIXED_AMOUNT, containerSize)
                  ELSE Pixels(Abs((SpecNumber(amount) * containerSize) \div 100)))
          ELSE parseScrollAmount(FIXED_AMOUNT, containerSize)

\* how many nested calls of parseScrollAmount the call stack holds
MaxStack == 3

\* a call that returned r, and a call the stack could not hold: a RangeError
\* leaves it
Returned(r) == [end |-> r.end, px |-> r.px, threw |-> FALSE]
StackOverflow == [end |-> FALSE, px |-> 0, threw |-> TRUE]

\* the default specs a page may configure: the shipped percentage and a pixel count
DefaultSpecs == {FIXED_AMOUNT, "200px"}

RECURSIVE parseScrollAmountOn(_, _, _, _, _)
\* parseScrollAmount as exported, call by call: the spec, whether a container
\* reference is passed and its client extent, CONFIG.DEFAULT_SCROLL.FIXED_AMOUNT,
\* and the calls already on the stack
parseScrollAmountOn(spec, hasContainer, containerSize, fixedAmount, depth) ==
  IF depth >= MaxStack THEN StackOverflow
  ELSE LET default == parseScrollAmountOn(fixedAmount, hasContainer, containerSize,
                                          fixedAmount, depth + 1)
           amount == TrimLowerSpec(spec)
       IN IF spec = "absent" \/ TrimLowerSpec(spec) = ""
            THEN (IF SCROLL_TO_END THEN Returned(BOUNDARY) ELSE default)
          ELSE IF amount = "end" THEN Returned(BOUNDARY)
          ELSE IF SpecUnit(amount) = "px"
            THEN (IF SpecIsNaN(amount) THEN default
                  ELSE Returned(Pixels(Abs(SpecNumber(amount)))))
          ELSE IF SpecUnit(amount) = "%"
            THEN (IF SpecIsNaN(amount) THEN default
                  ELSE IF ~hasContainer THEN default
                  ELSE Returned(Pixels(Abs((SpecNumber(amount) * containerSize) \div 100))))
          ELSE default

\* handleClick: the spec handed to performScroll
clickScrollAmount(attr) ==
  IF attr = "absent" \/ attr = ""
    THEN (IF SCROLL_TO_END THEN "end" ELSE FIXED_AMOUNT)
    ELSE attr

\* container.clientWidth / clientHeight of the wrapper that holds the region
\* and the activated click target: it spans the window
wrapperExtent(win) == win

ScrollDirectionFlipped(position) == IF position = "start" THEN 1 ELSE -1

\* performScroll: start scrolls backward, end forward
ScrollDirection(position) == IF position = "start" THEN -1 ELSE 1

\* parseScrollAmount: whether it logs a warning on the way
parseScrollAmountWarns(spec) ==
  /\ spec # "absent" /\ TrimLowerSpec(spec) # "" /\ TrimLowerSpec(spec) # "end"
  /\ SpecIsNaN(TrimLowerSpec(spec))

performScrollTargetDelta(spec, position, containerSize, isRendered, pos, win) ==
  LET parsedAmount == parseScrollAmount(clickScrollAmount(spec), containerSize)
  IN Max(0, scrollOffset(isRendered, pos) + parsedAmount.px * ScrollDirection(position))

\* performScroll: the offset handed to element.scrollTo; containerSize is the
\* client extent of the wrapper
performScrollTarget(spec, position, containerSize, isRendered, pos, win) ==
  LET parsedAmount == parseScrollAmount(clickScrollAmount(spec), containerSize)
      currentPosition == scrollOffset(isRendered, pos)
  IN IF parsedAmount.end
       THEN (IF position = "start" THEN 0 ELSE scrollExtent(isRendered))
       ELSE Max(0, currentPosition + parsedAmount.px * ScrollDirection(position))

\* ------------------------------------------------------------------- events
\* a scroll event reaches every scroll listener of the region: each one whose
\* flag is clear requests an animation frame and sets its flag
ScrollDispatched(c, moved) == IF moved THEN scrollL[c] ELSE rafQ[c]

\* the user scrolls region c to offset p; a smooth scroll under way is aborted
ScrollEvent(c, p) ==
  /\ build \in {"current", "previous"}
  /\ profile[c].axis # "absent"
  /\ rendered[c]
  /\ p \in 0..Max(0, maxScroll(TRUE, winSize))
  /\ p # scrollPos[c]
  /\ scrollPos' = [scrollPos EXCEPT ![c] = p]
  /\ smooth' = [smooth EXCEPT ![c] = NoTarget]
  /\ rafQ' = [rafQ EXCEPT ![c] = ScrollDispatched(c, TRUE)]
  /\ refreshRuns' = Zero
  /\ refreshApplied' = NoRefresh
  /\ lastClick' = NoClick /\ arrived' = NoArrival
  /\ UNCHANGED <<staticVars, publicVars, scrollEvt, rendered, winSize, classes, listenerVars,
                 debHandle, debLeaked, debOrphan, initVars, legacyVars, scrollRecomputes>>

AnimationFrameStale ==
  /\ build \in {"current", "previous"}
  /\ \E c \in Containers : rafQ[c] > 0
  /\ refreshRuns' = Zero
  /\ refreshApplied' = NoRefresh
  /\ scrollRecomputes' = rafQ
  /\ rafQ' = Zero
  /\ lastClick' = NoClick /\ arrived' = NoArrival
  /\ UNCHANGED <<staticVars, publicVars, scrollEvt, smooth, domVars, classes, listenerVars, debHandle, debLeaked, debOrphan,
                 initVars, legacyVars>>

\* the next animation frame: every requested callback runs
\* updateIndicatorVisibility and clears its listener's flag
AnimationFrame ==
  /\ build \in {"current", "previous"}
  /\ \E c \in Containers : rafQ[c] > 0
  /\ classes' = [c \in Containers |->
                   IF rafQ[c] > 0
                     THEN RefreshedClasses(c, classes[c], rendered[c], scrollPos[c], winSize)
                     ELSE classes[c]]
  /\ refreshRuns' = rafQ
  /\ refreshApplied' = [c \in Containers |->
                          rafQ[c] > 0 /\ RefreshApplies(build, rendered[c], winSize)]
  /\ scrollRecomputes' = rafQ
  /\ rafQ' = Zero
  /\ lastClick' = NoClick /\ arrived' = NoArrival
  /\ UNCHANGED <<staticVars, publicVars, scrollEvt, smooth, domVars, listenerVars, debHandle, debLeaked, debOrphan,
                 initVars, legacyVars>>

\* the window is resized to width w: every region's viewport follows, the
\* browser clamps the scroll offsets (a scroll event where one moved), and
\* every attached resize listener restarts its 150 ms debounce timer
ResizeEvent(w) ==
  /\ build \in {"current", "previous"}
  /\ w \in WinSizes /\ w # winSize
  /\ winSize' = w
  /\ scrollPos' = [c \in Containers |-> ClampToRange(scrollPos[c], TRUE, w)]
  /\ rafQ' = [c \in Containers |->
                ScrollDispatched(c, rendered[c] /\ ClampToRange(scrollPos[c], TRUE, w) # scrollPos[c])]
  /\ debHandle' = [c \in Containers |-> handle[c] # "none"]
  /\ debLeaked' = resizeLeaked
  /\ refreshRuns' = Zero
  /\ refreshApplied' = NoRefresh
  /\ lastClick' = NoClick /\ arrived' = NoArrival
  /\ UNCHANGED <<staticVars, publicVars, scrollEvt, smooth, rendered, classes, listenerVars, debOrphan, initVars,
                 legacyVars, scrollRecomputes>>

PendingTimers(c) == B2N(debHandle[c]) + debLeaked[c] + debOrphan[c]

\* 150 ms after the last resize event the pending debounce timers fire: each
\* handler refreshes its container if the region is visible
DebounceElapsed ==
  /\ build = "current"
  /\ \E c \in Containers : PendingTimers(c) > 0
  /\ classes' = [c \in Containers |->
                   IF PendingTimers(c) > 0 /\ isElementVisible(rendered[c], winSize)
                     THEN RefreshedClasses(c, classes[c], rendered[c], scrollPos[c], winSize)
                     ELSE classes[c]]
  /\ refreshRuns' = [c \in Containers |->
                       IF isElementVisible(rendered[c], winSize) THEN PendingTimers(c) ELSE 0]
  /\ refreshApplied' = [c \in Containers |->
                          PendingTimers(c) > 0 /\ isElementVisible(rendered[c], winSize)]
  /\ debHandle' = NoRefresh
  /\ debLeaked' = Zero
  /\ debOrphan' = Zero
  /\ lastClick' = NoClick /\ arrived' = NoArrival
  /\ UNCHANGED <<staticVars, publicVars, scrollEvt, smooth, domVars, listenerVars, rafQ, initVars, legacyVars,
                 scrollRecomputes>>

\* the page hides region c (display: none): it has no extent and no offset,
\* and a smooth scroll under way ends with its box
Hide(c) ==
  /\ profile[c].axis # "absent"
  /\ rendered[c]
  /\ rendered' = [rendered EXCEPT ![c] = FALSE]
  /\ scrollPos' = [scrollPos EXCEPT ![c] = 0]
  /\ smooth' = [smooth EXCEPT ![c] = NoTarget]
  /\ refreshRuns' = Zero
  /\ refreshApplied' = NoRefresh
  /\ lastClick' = NoClick /\ arrived' = NoArrival
  /\ UNCHANGED <<staticVars, publicVars, scrollEvt, winSize, classes, listenerVars, queueVars, initVars,
                 legacyVars, scrollRecomputes>>

ObserversNone(c) == 0

\* the IntersectionObservers that observe region c
Observers(c) == observerLeaked[c] + B2N(handle[c] = "resize+observer")

\* the page shows region c again: every IntersectionObserver still observing
\* it reports the intersection and its callback refreshes the container
Show(c) ==
  /\ profile[c].axis # "absent"
  /\ ~rendered[c]
  /\ rendered' = [rendered EXCEPT ![c] = TRUE]
  /\ classes' = [classes EXCEPT ![c] =
                   IF Observers(c) > 0
                     THEN RefreshedClasses(c, classes[c], TRUE, scrollPos[c], winSize)
                     ELSE classes[c]]
  /\ refreshRuns' = [Zero EXCEPT ![c] = Observers(c)]
  /\ refreshApplied' = [NoRefresh EXCEPT ![c] = Observers(c) > 0]
  /\ lastClick' = NoClick /\ arrived' = NoArrival
  /\ UNCHANGED <<staticVars, publicVars, scrollEvt, smooth, winSize, scrollPos, listenerVars, queueVars, initVars,
                 legacyVars, scrollRecomputes>>

\* handleClick: what getAttribute returns for the distance marker d of the
\* click target. The current build reads ATTRIBUTES.CLICK_DISTANCE; the
\* previous build reads ATTRIBUTES.SCROLL, a key ATTRIBUTES does not have, so
\* it asks for the attribute "undefined" and gets null whatever the marker says
customScrollAmount(b, d) == IF b = "previous" THEN "absent" ELSE d

\* Element.scrollTo / scrollBy with behavior 'smooth' towards the offset
\* target: the target is limited to the scrollable range; a smooth scroll under
\* way is replaced; a target that is the offset the region is at starts none
smoothScrollTo(c, target) ==
  IF ~rendered[c] THEN smooth[c]
  ELSE IF ClampToRange(target, TRUE, winSize) = scrollPos[c] THEN NoTarget
  ELSE ClampToRange(target, TRUE, winSize)

\* the user activates the click target of container c, by a click (how =
\* "click") or by Enter or Space (how = "keydown"), while its distance marker
\* reads d: every installed handler calls performScroll and returns; they all
\* read the same offset and ask for the same target, and the region moves later
Activate(c, how, d) ==
  /\ build \in {"current", "previous"}
  /\ initCalls > 0
  /\ validateClickTargetPosition(profile[c].clickTarget) # Null
  /\ LET n == IF how = "click" THEN clickL[c] ELSE keyL[c]
         position == validateClickTargetPosition(profile[c].clickTarget)
         read == customScrollAmount(build, d)
         target == performScrollTarget(read, position, wrapperExtent(winSize),
                                       rendered[c], scrollPos[c], winSize)
     IN /\ smooth' = [smooth EXCEPT ![c] =
                        IF n > 0 THEN smoothScrollTo(c, target) ELSE @]
        /\ lastClick' = [c |-> c, requests |-> n]
  /\ arrived' = NoArrival
  /\ refreshRuns' = Zero
  /\ refreshApplied' = NoRefresh
  /\ UNCHANGED <<staticVars, publicVars, scrollEvt, domVars, classes, listenerVars,
                 queueVars, initVars, legacyVars, scrollRecomputes>>

\* the smooth scroll of region c reaches its target: the offset moves and the
\* scroll event reaches every scroll listener of the region. In the current
\* and the previous build each listener requests a frame; in the legacy build
\* each one refreshes the container at once, in the frame of this event
SmoothScrollSettles(c) ==
  /\ smooth[c] # NoTarget
  /\ rendered[c]
  /\ LET after == ClampToRange(smooth[c], TRUE, winSize)
         moved == after # scrollPos[c]
         runs == IF build = "legacy" /\ moved THEN scrollL[c] ELSE 0
     IN /\ scrollPos' = [scrollPos EXCEPT ![c] = after]
        /\ rafQ' = [rafQ EXCEPT ![c] =
                      IF build = "legacy" THEN @ ELSE ScrollDispatched(c, moved)]
        /\ classes' = [classes EXCEPT ![c] =
                         IF runs > 0 THEN RefreshedClasses(c, classes[c], TRUE, after, winSize)
                         ELSE @]
        /\ refreshRuns' = [Zero EXCEPT ![c] = runs]
        /\ refreshApplied' = [NoRefresh EXCEPT ![c] = runs > 0]
        /\ scrollRecomputes' = [scrollRecomputes EXCEPT ![c] =
                                  IF build = "legacy" /\ moved THEN scrollL[c] ELSE @]
  /\ arrived' = c
  /\ smooth' = [smooth EXCEPT ![c] = NoTarget]
  /\ lastClick' = NoClick
  /\ UNCHANGED <<staticVars, publicVars, scrollEvt, rendered, winSize, listenerVars,
                 debHandle, debLeaked, debOrphan, initVars, legacyVars>>

\* --------------------------------------------------------------- legacy build
\* In the legacy build the element with the axis marker is the container: it
\* carries the click marker and holds the indicator; there are no click targets.
LEGACY_FIXED_AMOUNT == "200px"
LEGACY_SCROLL_TO_END == TRUE

\* getScrollContainers: every element with an axis marker
getScrollContainers == {c \in Containers : profile[c].axis # "absent"}

\* validateIndicator: the side marker is exactly start or end, and the
\* indicator has an ancestor with an axis marker (of any value)
validateIndicator(c) ==
  profile[c].indicator \in {"start", "end"} /\ profile[c].axis # "absent"

\* a JavaScript number: an integer here, or NaN
Num(v) == [nan |-> FALSE, v |-> v]
NaN == [nan |-> TRUE, v |-> 0]
Neg(x) == IF x.nan THEN NaN ELSE Num(-x.v)

parseCSSValuePixels(value, containerSize) ==
  IF SpecIsNaN(value) THEN Num(0) ELSE Num(SpecNumber(value))

\* parseCSSValue on the specs in use: the signed number of a px spec, the
\* signed share of the container size of a % spec, NaN for a unit without a
\* number, 0 for a word without a unit
parseCSSValue(value, containerSize) ==
  IF SpecUnit(TrimSpec(value)) = "px"
    THEN (IF SpecIsNaN(value) THEN NaN ELSE Num(SpecNumber(value)))
  ELSE IF SpecUnit(TrimSpec(value)) = "%"
    THEN (IF SpecIsNaN(value) THEN NaN ELSE Num((SpecNumber(value) * containerSize) \div 100))
  ELSE Num(0)

\* calculateScrollAmount
calculateScrollAmount(scrollAmount, containerSize, max) ==
  IF scrollAmount = "end" \/ scrollAmount = "start"
    THEN (IF scrollAmount = "start" THEN Num(-max) ELSE Num(max))
    ELSE parseCSSValue(scrollAmount, containerSize)

\* the values of the item-count marker a click may find on its indicator
CountAttrs == {"absent", "2", "0", "-2", "abc"}

\* parseInt(attr) || 1
nextAmountOf(attr) ==
  CASE attr = "2" -> 2 [] attr = "-2" -> -2 [] OTHER -> 1

RECURSIVE closestFrom(_, _, _, _, _)
\* the loop of getCurrentItemIndex from index i (counted from 0) on
closestFrom(positions, currentScroll, i, closestIndex, closestDistance) ==
  IF i >= Len(positions) THEN closestIndex
  ELSE LET distance == Abs(positions[i + 1] - currentScroll)
       IN IF distance < closestDistance
            THEN closestFrom(positions, currentScroll, i + 1, i, distance)
            ELSE closestFrom(positions, currentScroll, i + 1, closestIndex, closestDistance)

getCurrentItemIndexLast(positions, currentScroll) ==
  IF Len(positions) = 0 THEN -1
  ELSE CHOOSE i \in 0..(Len(positions) - 1) :
         \A j \in 0..(Len(positions) - 1) :
           \/ Abs(positions[i + 1] - currentScroll) < Abs(positions[j + 1] - currentScroll)
           \/ /\ Abs(positions[i + 1] - currentScroll) = Abs(positions[j + 1] - currentScroll)
              /\ j <= i

\* getCurrentItemIndex: indices count from 0, -1 for no items
getCurrentItemIndex(positions, currentScroll) ==
  IF Len(positions) = 0 THEN -1
  ELSE closestFrom(positions, currentScroll, 1, 0, Abs(positions[1] - currentScroll))

targetItemIndexUnstepped(positions, currentScroll, nextAmount, isForward) ==
  getCurrentItemIndex(positions, currentScroll)

\* calculateNextItemScroll: the index it steps to
targetItemIndex(positions, currentScroll, nextAmount, isForward) ==
  LET currentIndex == getCurrentItemIndex(positions, currentScroll)
  IN IF isForward THEN Min(currentIndex + nextAmount, Len(positions) - 1)
     ELSE Max(currentIndex - nextAmount, 0)

calculateNextItemScrollUnchecked(positions, currentScroll, nextAmount, isForward) ==
  LET targetIndex == targetItemIndex(positions, currentScroll, nextAmount, isForward)
  IN IF targetIndex \in 0..(Len(positions) - 1)
       THEN Num(positions[targetIndex + 1] - currentScroll)
       ELSE NaN

\* calculateNextItemScroll: 0 for no items; positions[targetIndex] is
\* undefined outside the array and the difference then NaN
calculateNextItemScroll(positions, currentScroll, nextAmount, isForward) ==
  IF Len(positions) = 0 THEN Num(0)
  ELSE LET targetIndex == targetItemIndex(positions, currentScroll, nextAmount, isForward)
       IN IF targetIndex \in 0..(Len(positions) - 1)
            THEN Num(positions[targetIndex + 1] - currentScroll)
            ELSE NaN

\* calculateNextItemScroll: whether it warns of a region without items
nextItemWarns(positions) == Len(positions) = 0

\* handleIndicatorClick: the spec it works with
legacyScrollAmount(attr) ==
  IF attr = "absent" \/ attr = "" THEN LEGACY_FIXED_AMOUNT ELSE attr

\* handleIndicatorClick: the amount handed to scrollBy
clickAmount(position, spec, count, positions, isRendered, pos, win) ==
  LET scrollAmount == legacyScrollAmount(spec)
      current == scrollOffset(isRendered, pos)
      max == maxScroll(isRendered, win)
      containerSize == clientExtent(isRendered, win)
  IN IF scrollAmount = "next"
       THEN calculateNextItemScroll(positions, current, nextAmountOf(count), position = "end")
     ELSE IF position = "start"
       THEN (IF scrollAmount = "end" THEN Num(-current)
             ELSE Neg(calculateScrollAmount(scrollAmount, containerSize, max)))
       ELSE IF position = "end"
         THEN (IF scrollAmount = "end" THEN Num(max - current)
               ELSE calculateScrollAmount(scrollAmount, containerSize, max))
       ELSE NaN

\* Element.scrollBy: a non-finite amount counts as 0, the sum is limited to
\* the scrollable range
scrollContainer(amount, isRendered, pos, win) ==
  IF ~isRendered \/ amount.nan THEN pos
  ELSE ClampToRange(pos + amount.v, TRUE, win)

\* the place of container c in document order
Idx(c) == CHOOSE i \in 1..Len(DocOrder) : DocOrder[i] = c

\* ScrollIndicators.init, with the DOM calls named by f raising: the method
\* has no try/catch, so the first raising call ends it. setupScrollListeners
\* adds the one function handleScroll, which a region holds once however often
\* it is added, beside the listeners addContainer gave the region
init(f) ==
  /\ build = "legacy"
  /\ initCalls < MaxInits
  /\ LET valid == {c \in getScrollContainers : validateContainer(profile[c].axis)}
         starts == ~initialized /\ valid # {}
         scrollRaise == {c \in valid : f[c] = "scroll"}
         scrollAdded == {c \in valid : starts /\ \A d \in scrollRaise : Idx(c) < Idx(d)}
         clickable == {c \in Containers : profile[c].click = "true" /\ validateIndicator(c)}
         clickRaise == {c \in clickable : f[c] = "click"}
         clickAdded == {c \in clickable :
                          starts /\ scrollRaise = {} /\ \A d \in clickRaise : Idx(c) < Idx(d)}
         raised == starts /\ (scrollRaise # {} \/ clickRaise # {})
         runs == starts /\ ~raised
     IN /\ registry' = IF ~initialized THEN valid ELSE registry
        /\ warned' = IF ~initialized THEN getScrollContainers \ valid ELSE {}
        /\ scrollL' = [c \in Containers |->
                         IF c \in scrollAdded THEN arrowL[c] + 1 ELSE scrollL[c]]
        /\ clickL' = [c \in Containers |->
                        IF c \in clickAdded THEN Max(clickL[c], 1) ELSE clickL[c]]
        /\ winResizeL' = IF runs THEN 1 ELSE winResizeL
        /\ classes' = [c \in Containers |->
                         IF runs /\ c \in valid
                           THEN RefreshedClasses(c, classes[c], rendered[c], scrollPos[c], winSize)
                           ELSE classes[c]]
        /\ refreshRuns' = [c \in Containers |-> B2N(runs /\ c \in valid)]
        /\ refreshApplied' = [c \in Containers |-> runs /\ c \in valid]
        /\ initialized' = (initialized \/ runs)
        /\ initReturn' = IF raised THEN Threw ELSE Undefined
        /\ activated' = IF runs THEN valid ELSE {}
  /\ faulted' = f
  /\ initCalls' = initCalls + 1
  /\ lastClick' = NoClick /\ arrived' = NoArrival
  /\ UNCHANGED <<staticVars, publicVars, scrollEvt, smooth, domVars, handle, resizeLeaked, observerLeaked, keyL, queueVars,
                 settleQ, scrollRecomputes>>

\* the user scrolls region c to offset p: every scroll listener of the region
\* refreshes at once; a smooth scroll under way is aborted
handleScroll(c, p) ==
  /\ build = "legacy"
  /\ profile[c].axis # "absent"
  /\ rendered[c]
  /\ p \in 0..Max(0, maxScroll(TRUE, winSize))
  /\ p # scrollPos[c]
  /\ scrollRecomputes[c] < MaxBurst
  /\ scrollPos' = [scrollPos EXCEPT ![c] = p]
  /\ smooth' = [smooth EXCEPT ![c] = NoTarget]
  /\ classes' = [classes EXCEPT ![c] =
                   IF scrollL[c] > 0
                     THEN RefreshedClasses(c, classes[c], TRUE, p, winSize)
                     ELSE classes[c]]
  /\ refreshRuns' = [Zero EXCEPT ![c] = scrollL[c]]
  /\ refreshApplied' = [NoRefresh EXCEPT ![c] = scrollL[c] > 0]
  /\ scrollRecomputes' = [scrollRecomputes EXCEPT ![c] = @ + scrollL[c]]
  /\ lastClick' = NoClick /\ arrived' = NoArrival
  /\ UNCHANGED <<staticVars, publicVars, scrollEvt, rendered, winSize, listenerVars, queueVars, initVars,
                 legacyVars>>

\* the browser renders the next frame: the burst of scroll events is over
LegacyFrame ==
  /\ build = "legacy"
  /\ \E c \in Containers : scrollRecomputes[c] > 0
  /\ scrollRecomputes' = Zero
  /\ refreshRuns' = Zero
  /\ refreshApplied' = NoRefresh
  /\ lastClick' = NoClick /\ arrived' = NoArrival
  /\ UNCHANGED <<staticVars, publicVars, scrollEvt, smooth, domVars, classes, listenerVars, queueVars, initVars, legacyVars>>

\* the window is resized to width w: handleResize refreshes every element with
\* an axis marker at once; where the browser had to pull an offset back into
\* the scrollable range, the scroll event of that reaches the scroll listeners
\* of the region in the same frame, and each one refreshes its container
handleResize(w) ==
  /\ build = "legacy"
  /\ w \in WinSizes /\ w # winSize
  /\ winSize' = w
  /\ scrollPos' = [c \in Containers |-> ClampToRange(scrollPos[c], TRUE, w)]
  /\ LET hit == IF winResizeL > 0 THEN getScrollContainers ELSE {}
         pulled == {c \in Containers :
                      rendered[c] /\ ClampToRange(scrollPos[c], TRUE, w) # scrollPos[c]}
         heard == {c \in pulled : scrollL[c] > 0}
     IN /\ classes' = [c \in Containers |->
                         IF c \in hit \cup heard
                           THEN RefreshedClasses(c, classes[c], rendered[c],
                                                 ClampToRange(scrollPos[c], TRUE, w), w)
                           ELSE classes[c]]
        /\ refreshRuns' = [c \in Containers |->
                             B2N(c \in hit) + (IF c \in pulled THEN scrollL[c] ELSE 0)]
        /\ refreshApplied' = [c \in Containers |-> c \in hit \cup heard]
        /\ scrollRecomputes' = [c \in Containers |->
                                  IF c \in pulled THEN scrollL[c] ELSE scrollRecomputes[c]]
  /\ lastClick' = NoClick /\ arrived' = NoArrival
  /\ UNCHANGED <<staticVars, publicVars, scrollEvt, smooth, rendered, listenerVars, queueVars, initVars,
                 legacyVars>>

\* the user clicks the indicator of container c while its scroll marker reads
\* d and its item-count marker n: handleIndicatorClick asks scrollBy for the
\* amount with behavior CONFIG.SCROLL_BEHAVIOR, starts a 100 ms timer and
\* returns. A smooth scroll moves the region later; any other behavior moves
\* it at once, and its scroll event is dispatched later
handleIndicatorClick(c, d, n) ==
  /\ build = "legacy"
  /\ clickL[c] > 0
  /\ settleQ[c] < MaxBurst
  /\ LET amount == clickAmount(profile[c].indicator, d, n, itemOffsets,
                               rendered[c], scrollPos[c], winSize)
         target == scrollContainer(amount, rendered[c], scrollPos[c], winSize)
         jumps == behavior # "smooth" /\ rendered[c]
     IN /\ smooth' = [smooth EXCEPT ![c] =
                        IF jumps THEN NoTarget ELSE smoothScrollTo(c, target)]
        /\ scrollPos' = [scrollPos EXCEPT ![c] = IF jumps THEN target ELSE @]
        /\ scrollEvt' = [scrollEvt EXCEPT ![c] = @ \/ (jumps /\ target # scrollPos[c])]
        /\ arrived' = IF jumps /\ target # scrollPos[c] THEN c ELSE NoArrival
  /\ settleQ' = [settleQ EXCEPT ![c] = @ + 1]
  /\ lastClick' = [c |-> c, requests |-> 1]
  /\ refreshRuns' = Zero
  /\ refreshApplied' = NoRefresh
  /\ UNCHANGED <<staticVars, publicVars, rendered, winSize, classes, listenerVars, queueVars,
                 initVars, initialized, registry, winResizeL, scrollRecomputes>>

\* the scroll event of a region that was moved at once is dispatched: every
\* scroll listener of the region refreshes
ScrollEventDelivered(c) ==
  /\ build = "legacy"
  /\ scrollEvt[c]
  /\ scrollEvt' = [scrollEvt EXCEPT ![c] = FALSE]
  /\ classes' = [classes EXCEPT ![c] =
                   IF scrollL[c] > 0
                     THEN RefreshedClasses(c, classes[c], rendered[c], scrollPos[c], winSize)
                     ELSE @]
  /\ refreshRuns' = [Zero EXCEPT ![c] = scrollL[c]]
  /\ refreshApplied' = [NoRefresh EXCEPT ![c] = scrollL[c] > 0]
  /\ scrollRecomputes' = [scrollRecomputes EXCEPT ![c] = scrollL[c]]
  /\ lastClick' = NoClick /\ arrived' = NoArrival
  /\ UNCHANGED <<staticVars, publicVars, smooth, domVars, listenerVars, queueVars, initVars,
                 legacyVars>>

\* 100 ms after a click its timer refreshes the container
SettleElapsed(c) ==
  /\ build = "legacy"
  /\ settleQ[c] > 0
  /\ settleQ' = [settleQ EXCEPT ![c] = @ - 1]
  /\ classes' = [classes EXCEPT ![c] =
                   RefreshedClasses(c, classes[c], rendered[c], scrollPos[c], winSize)]
  /\ refreshRuns' = [Zero EXCEPT ![c] = 1]
  /\ refreshApplied' = [NoRefresh EXCEPT ![c] = TRUE]
  /\ lastClick' = NoClick /\ arrived' = NoArrival
  /\ UNCHANGED <<staticVars, publicVars, scrollEvt, smooth, domVars, listenerVars, queueVars, initVars,
                 initialized, registry, winResizeL, scrollRecomputes>>

\* the keys of CONFIG, and the keys a patch may name: those and one more
ConfigKeys ==
  {"ATTRIBUTE_PREFIX", "CSS_CLASSES", "DEFAULT_SCROLL", "SCROLL_BEHAVIOR",
   "SCROLL_THRESHOLD", "DEBUG"}
PatchKeys == ConfigKeys \cup {"EXTRA"}

\* CONFIG as shipped: every key holds its shipped value
CONFIG == [k \in ConfigKeys |-> "shipped"]

\* updateConfig's allow-list
allowedKeys == {"SCROLL_BEHAVIOR", "SCROLL_THRESHOLD", "DEBUG"}

updateConfigAll(config, newConfig) ==
  [k \in DOMAIN config \cup newConfig |-> IF k \in newConfig THEN "patched" ELSE config[k]]

\* updateConfig: every key of the patch that is on the allow-list is assigned
\* the patch's value; newConfig is the set of keys the patch holds
updateConfig(config, newConfig) ==
  [k \in DOMAIN config \cup (newConfig \cap allowedKeys) |->
     IF k \in newConfig /\ k \in allowedKeys THEN "patched" ELSE config[k]]

\* the values a patch may give a key: numbers and a string
PatchValues ==
  {[kind |-> "number", v |-> 0], [kind |-> "number", v |-> 5],
   [kind |-> "number", v |-> -5], [kind |-> "string", v |-> 0]}

\* updateConfig: CONFIG[key] after a patch that gives each of its keys the value
updatedValue(key, current, newConfig, value) ==
  IF key \in newConfig /\ key \in allowedKeys THEN value ELSE current

\* a key is pressed on the indicator of container c: the legacy build
\* installs no keydown listener, so nothing is requested
LegacyKeydown(c) ==
  /\ build = "legacy"
  /\ initCalls > 0
  /\ validateIndicator(c)
  /\ lastClick' = [c |-> c, requests |-> 0]
  /\ arrived' = NoArrival
  /\ refreshRuns' = Zero
  /\ refreshApplied' = NoRefresh
  /\ UNCHANGED <<staticVars, publicVars, scrollEvt, smooth, domVars, classes, listenerVars, queueVars, initVars,
                 legacyVars, scrollRecomputes>>

\* how many scroll listeners of one region are followed
MaxAdds == 2

\* ScrollIndicators.addContainer: a valid container that is not registered is
\* registered, gets a scroll listener of its own (a new arrow function at
\* every call) and is refreshed
addContainer(c) ==
  /\ build = "legacy"
  /\ scrollL[c] < MaxAdds
  /\ LET added == validateContainer(profile[c].axis) /\ c \notin registry
     IN /\ registry' = IF added THEN registry \cup {c} ELSE registry
        /\ scrollL' = [scrollL EXCEPT ![c] = @ + B2N(added)]
        /\ arrowL' = [arrowL EXCEPT ![c] = @ + B2N(added)]
        /\ classes' = [classes EXCEPT ![c] =
                         IF added
                           THEN RefreshedClasses(c, classes[c], rendered[c], scrollPos[c], winSize)
                           ELSE classes[c]]
        /\ refreshRuns' = [Zero EXCEPT ![c] = B2N(added)]
        /\ refreshApplied' = [NoRefresh EXCEPT ![c] = added]
  /\ lastClick' = NoClick /\ arrived' = NoArrival
  /\ UNCHANGED <<staticVars, threshold, behavior, scrollEvt, smooth, domVars, handle, resizeLeaked, observerLeaked,
                 clickL, keyL, queueVars, initVars, initialized, winResizeL, settleQ,
                 scrollRecomputes>>

\* ScrollIndicators.removeContainer: the container leaves the registry
removeContainer(c) ==
  /\ build = "legacy"
  /\ c \in registry
  /\ registry' = registry \ {c}
  /\ refreshRuns' = Zero
  /\ refreshApplied' = NoRefresh
  /\ lastClick' = NoClick /\ arrived' = NoArrival
  /\ UNCHANGED <<staticVars, publicVars, scrollEvt, smooth, domVars, classes, listenerVars, queueVars, initVars,
                 initialized, winResizeL, settleQ, scrollRecomputes>>

\* ScrollIndicators.refresh: every registered container is refreshed
refresh ==
  /\ build = "legacy"
  /\ classes' = [c \in Containers |->
                   IF c \in registry
                     THEN RefreshedClasses(c, classes[c], rendered[c], scrollPos[c], winSize)
                     ELSE classes[c]]
  /\ refreshRuns' = [c \in Containers |-> B2N(c \in registry)]
  /\ refreshApplied' = [c \in Containers |-> c \in registry]
  /\ lastClick' = NoClick /\ arrived' = NoArrival
  /\ UNCHANGED <<staticVars, publicVars, scrollEvt, smooth, domVars, listenerVars, queueVars, initVars,
                 legacyVars, scrollRecomputes>>

\* the patches the page hands to updateConfig, and the thresholds and
\* behaviors they carry
PagePatches ==
  {{"SCROLL_THRESHOLD"}, {"SCROLL_BEHAVIOR"}, {"SCROLL_THRESHOLD", "DEBUG"}, {"ATTRIBUTE_PREFIX"}}
PageThresholds == {SCROLL_THRESHOLD, 3}
PageBehaviors == {SCROLL_BEHAVIOR, "instant"}

\* the page calls ScrollIndicators.updateConfig with a patch that gives
\* SCROLL_THRESHOLD the value and SCROLL_BEHAVIOR the behavior how: each is
\* assigned when the patch names it, and nothing is refreshed
updateConfigCalled(newConfig, value, how) ==
  /\ build = "legacy"
  /\ threshold' = updatedValue("SCROLL_THRESHOLD", threshold, newConfig, value)
  /\ behavior' = updatedValue("SCROLL_BEHAVIOR", behavior, newConfig, how)
  /\ refreshRuns' = Zero
  /\ refreshApplied' = NoRefresh
  /\ lastClick' = NoClick /\ arrived' = NoArrival
  /\ UNCHANGED <<staticVars, arrowL, scrollEvt, smooth, domVars, classes, listenerVars, queueVars,
                 initVars, legacyVars, scrollRecomputes>>

\* ------------------------------------------------------------ specifications
\* no function applied under SpecFunctions
NoArg ==
  [fn |-> "none", spec |-> "absent", count |-> "absent", position |-> "start",
   positions |-> <<>>, current |-> 0, containerSize |-> 0, win |-> 0, patch |-> {},
   value |-> [kind |-> "number", v |-> 0], hasContainer |-> TRUE, fixed |-> FIXED_AMOUNT]
NotApplied ==
  [fn |-> "none", end |-> FALSE, nan |-> FALSE, n |-> 0, after |-> 0, idx |-> 0,
   warn |-> FALSE, atStart |-> FALSE, atEnd |-> FALSE, config |-> CONFIG,
   threshold |-> [kind |-> "number", v |-> SCROLL_THRESHOLD], threw |-> FALSE]

Quiet ==
  /\ scrollPos = Zero
  /\ classes = [c \in Containers |-> [k \in Kinds |-> {}]]
  /\ scrollL = Zero /\ rafQ = Zero
  /\ handle = [c \in Containers |-> "none"]
  /\ resizeLeaked = Zero /\ observerLeaked = Zero
  /\ debHandle = NoRefresh /\ debLeaked = Zero /\ debOrphan = Zero
  /\ clickL = Zero /\ keyL = Zero
  /\ initCalls = 0
  /\ initReturn = NotCalled /\ activated = {} /\ faulted = NoFault /\ warned = {}
  /\ initialized = FALSE /\ registry = {} /\ winResizeL = 0 /\ settleQ = Zero
  /\ threshold = SCROLL_THRESHOLD /\ arrowL = Zero
  /\ behavior = SCROLL_BEHAVIOR /\ scrollEvt = NoScrollEvent
  /\ smooth = NoSmooth /\ arrived = NoArrival
  /\ refreshRuns = Zero /\ refreshApplied = NoRefresh
  /\ scrollRecomputes = Zero
  /\ lastClick = NoClick

\* one container of any markup, shown or hidden, beside one without a region
Init ==
  /\ build \in Builds
  /\ profile \in {f \in [Containers -> Profiles] : f["c2"].axis = "absent"}
  /\ rendered \in {r \in [Containers -> BOOLEAN] : r["c2"]}
  /\ winSize \in WinSizes
  /\ itemOffsets = <<>> /\ observerSupported = TRUE /\ arg = NoArg /\ res = NotApplied
  /\ Quiet

Next ==
  \/ initializeScrollIndicators(NoFault)
  \/ cleanupScrollIndicators
  \/ \E c \in Containers : \E p \in 0..ContentExtent : ScrollEvent(c, p)
  \/ AnimationFrame
  \/ \E w \in WinSizes : ResizeEvent(w)
  \/ DebounceElapsed
  \/ \E c \in Containers : Hide(c)
  \/ \E c \in Containers : Show(c)
  \/ \E c \in Containers : \E how \in {"click", "keydown"} : \E d \in DistAttrs :
       Activate(c, how, d)
  \/ init(NoFault)
  \/ \E c \in Containers : \E p \in 0..ContentExtent : handleScroll(c, p)
  \/ LegacyFrame
  \/ \E w \in WinSizes : handleResize(w)
  \/ \E c \in Containers : \E d \in DistAttrs : handleIndicatorClick(c, d, "absent")
  \/ \E c \in Containers : LegacyKeydown(c)
  \/ \E c \in Containers : SettleElapsed(c)
  \/ \E c \in Containers : SmoothScrollSettles(c)
  \/ \E c \in Containers : ScrollEventDelivered(c)
  \/ refresh
  \/ \E newConfig \in PagePatches : \E value \in PageThresholds : \E how \in PageBehaviors :
       updateConfigCalled(newConfig, value, how)

Spec == Init /\ [][Next]_vars

\* a page of two containers of any markup, each shown or hidden
InitPage ==
  /\ build \in Builds
  /\ profile \in [Containers -> Profiles]
  /\ rendered \in [Containers -> BOOLEAN]
  /\ winSize \in WinSizes
  /\ itemOffsets = <<>> /\ observerSupported = TRUE /\ arg = NoArg /\ res = NotApplied
  /\ Quiet

NextPage ==
  \/ \E f \in [Containers -> Faults] : initializeScrollIndicators(f)
  \/ cleanupScrollIndicators
  \/ \E w \in WinSizes : ResizeEvent(w)
  \/ DebounceElapsed
  \/ \E f \in [Containers -> Faults] : init(f)
  \/ \E w \in WinSizes : handleResize(w)

SpecPage == InitPage /\ [][NextPage]_vars

\* the current build on a page whose region is shown or still hidden, in a
\* browser with or without IntersectionObserver; a hidden region can be shown
InitWatch ==
  /\ build = "current"
  /\ profile \in {f \in [Containers -> Profiles] : f["c2"].axis = "absent"}
  /\ rendered \in {r \in [Containers -> BOOLEAN] : r["c2"]}
  /\ winSize \in WinSizes
  /\ observerSupported \in BOOLEAN
  /\ itemOffsets = <<>> /\ arg = NoArg /\ res = NotApplied
  /\ Quiet

NextWatch ==
  \/ initializeScrollIndicators(NoFault)
  \/ cleanupScrollIndicators
  \/ \E c \in Containers : \E p \in 0..ContentExtent : ScrollEvent(c, p)
  \/ AnimationFrame
  \/ \E w \in WinSizes : ResizeEvent(w)
  \/ DebounceElapsed
  \/ \E c \in Containers : Show(c)

\* the browser runs every requested animation-frame callback
SpecWatch == InitWatch /\ [][NextWatch]_vars /\ WF_vars(AnimationFrame)

\* the legacy build with containers added to and removed from the registry
InitRegistry ==
  /\ build = "legacy"
  /\ profile \in {f \in [Containers -> Profiles] : f["c2"].axis = "absent"}
  /\ rendered \in {r \in [Containers -> BOOLEAN] : r["c2"]}
  /\ winSize \in WinSizes
  /\ itemOffsets = <<>> /\ observerSupported = TRUE /\ arg = NoArg /\ res = NotApplied
  /\ Quiet

NextRegistry ==
  \/ init(NoFault)
  \/ \E c \in Containers : addContainer(c)
  \/ \E c \in Containers : removeContainer(c)
  \/ \E c \in Containers : \E p \in 0..ContentExtent : handleScroll(c, p)
  \/ LegacyFrame
  \/ refresh
  \/ \E newConfig \in PagePatches : \E value \in PageThresholds : \E how \in PageBehaviors :
       updateConfigCalled(newConfig, value, how)

SpecRegistry == InitRegistry /\ [][NextRegistry]_vars

\* the markup of a clicked page: that of Profiles, and a container whose axis
\* marker is no axis around an indicator of the end side
ClickProfiles ==
  Profiles \cup
    { [axis |-> "diagonal", indicator |-> "end", clickTarget |-> "start", click |-> "true"] }

\* a page whose regions stay shown and are moved by clicks only; the browser
\* runs every requested animation-frame callback and every started timer, and
\* brings every smooth scroll to its target
InitClick ==
  /\ build \in Builds
  /\ profile \in [Containers -> ClickProfiles]
  /\ rendered = [c \in Containers |-> TRUE]
  /\ winSize \in WinSizes
  /\ itemOffsets = <<>> /\ observerSupported = TRUE /\ arg = NoArg /\ res = NotApplied
  /\ Quiet

NextClick ==
  \/ initializeScrollIndicators(NoFault)
  \/ \E c \in Containers : \E how \in {"click", "keydown"} : \E d \in DistAttrs :
       Activate(c, how, d)
  \/ AnimationFrame
  \/ init(NoFault)
  \/ \E c \in Containers : \E d \in DistAttrs : handleIndicatorClick(c, d, "absent")
  \/ \E c \in Containers : SettleElapsed(c)
  \/ \E c \in Containers : SmoothScrollSettles(c)

SpecClick ==
  /\ InitClick /\ [][NextClick]_vars
  /\ WF_vars(AnimationFrame)
  /\ \A c \in Containers : WF_vars(SettleElapsed(c))
  /\ \A c \in Containers : WF_vars(SmoothScrollSettles(c))

\* ------------------------------------------------------- nested containers
\* A page on which container c2 lies inside container c1, behind c1's region:
\* findIndicators and findClickTargets query every descendant, so c1 binds
\* the elements of c2 besides its own; c2 binds its own.
Bound(c) == IF c = "c1" THEN {"c1", "c2"} ELSE {c}

\* updateIndicatorVisibility of container c on that page: every element c
\* binds gets the class of its side at the offset of c's region
RefreshedBound(c, all) ==
  IF ~RefreshApplies(build, rendered[c], winSize) THEN all
  ELSE LET atStart == isAtStart(scrollOffset(rendered[c], scrollPos[c]))
           atEnd == isAtEnd(scrollOffset(rendered[c], scrollPos[c]), scrollExtent(rendered[c]),
                            clientExtent(rendered[c], winSize))
       IN [d \in Containers |->
             IF d \notin Bound(c) THEN all[d]
             ELSE [k \in Kinds |->
                     IF Side(build, d, k) = Null THEN all[d][k]
                     ELSE SetVisibility(all[d][k],
                                        ShouldBeVisible(Side(build, d, k), atStart, atEnd))]]

\* setupClickHandlers of container c on that page: every valid click target c
\* binds gets the click-target class
MarkedBound(c, all) ==
  [d \in Containers |->
     IF d \in Bound(c) /\ clickEnabled(profile[c].click)
          /\ validateClickTargetPosition(profile[d].clickTarget) # Null
       THEN [all[d] EXCEPT !["clickTarget"] = @ \cup {IS_CLICK_TARGET}]
       ELSE all[d]]

\* the containers whose setupClickHandlers adds listeners to the click target of d
ClickBinders(d) ==
  {c \in Containers : d \in Bound(c) /\ clickEnabled(profile[c].click)
                        /\ validateClickTargetPosition(profile[d].clickTarget) # Null}

\* initializeScrollIndicators on that page: c1 is set up, then c2
initializeScrollIndicatorsNested ==
  /\ build = "current"
  /\ initCalls < MaxInits
  /\ LET out == [c \in Containers |-> setupScrollContainer(c, "none")]
     IN /\ scrollL' = [c \in Containers |-> out[c].scrollL]
        /\ handle' = [c \in Containers |-> out[c].handle]
        /\ resizeLeaked' = [c \in Containers |-> out[c].resizeLeaked]
        /\ observerLeaked' = [c \in Containers |-> out[c].observerLeaked]
        /\ debHandle' = [c \in Containers |-> out[c].debHandle]
        /\ debLeaked' = [c \in Containers |-> out[c].debLeaked]
        /\ refreshRuns' = [c \in Containers |-> out[c].runs]
        /\ refreshApplied' = [c \in Containers |-> out[c].applied]
        /\ activated' = {c \in Containers : out[c].ok}
  /\ classes' = MarkedBound("c2", RefreshedBound("c2",
                   MarkedBound("c1", RefreshedBound("c1", classes))))
  /\ clickL' = [d \in Containers |-> clickL[d] + Cardinality(ClickBinders(d))]
  /\ keyL' = [d \in Containers |-> keyL[d] + Cardinality(ClickBinders(d))]
  /\ warned' = {}
  /\ initReturn' = InitReturnValue(Cardinality(Containers))
  /\ faulted' = NoFault
  /\ initCalls' = initCalls + 1
  /\ lastClick' = NoClick /\ arrived' = NoArrival
  /\ UNCHANGED <<staticVars, publicVars, scrollEvt, smooth, domVars, rafQ, debOrphan, legacyVars, scrollRecomputes>>

\* the next animation frame on that page: the requested callbacks run in the
\* order of their requests, each refreshing the elements its container binds
AnimationFrameNested ==
  /\ build = "current"
  /\ \E c \in Containers : rafQ[c] > 0
  /\ \E first \in Containers :
       LET second == CHOOSE c \in Containers : c # first
           one == IF rafQ[first] > 0 THEN RefreshedBound(first, classes) ELSE classes
       IN classes' = IF rafQ[second] > 0 THEN RefreshedBound(second, one) ELSE one
  /\ refreshRuns' = rafQ
  /\ refreshApplied' = [c \in Containers |->
                          rafQ[c] > 0 /\ RefreshApplies(build, rendered[c], winSize)]
  /\ scrollRecomputes' = rafQ
  /\ rafQ' = Zero
  /\ lastClick' = NoClick /\ arrived' = NoArrival
  /\ UNCHANGED <<staticVars, publicVars, scrollEvt, smooth, domVars, listenerVars, debHandle, debLeaked, debOrphan,
                 initVars, legacyVars>>

\* the current build on that page: both containers hold a region of their own
\* with a recognised axis and validly tagged elements
InitNested ==
  /\ build = "current"
  /\ profile \in [Containers -> Profiles]
  /\ \A c \in Containers : Validated(c)
  /\ rendered = [c \in Containers |-> TRUE]
  /\ winSize \in WinSizes
  /\ itemOffsets = <<>> /\ observerSupported = TRUE /\ arg = NoArg /\ res = NotApplied
  /\ Quiet

NextNested ==
  \/ initializeScrollIndicatorsNested
  \/ \E c \in Containers : \E p \in 0..ContentExtent : ScrollEvent(c, p)
  \/ AnimationFrameNested

SpecNested == InitNested /\ [][NextNested]_vars

\* ------------------------------------------------- the functions on their own
\* client extents of the element a measurement is handed: the content
\* overflows by 4, 2, 1 or not at all, or the element reports a client extent
\* 2 above its scroll extent. The functions are exported and read the extents
\* off whatever element they get
FnSizes ==
  {ContentExtent - 4, ContentExtent - 2, ContentExtent - 1, ContentExtent, ContentExtent + 2}

\* offsets of the items registered in a region, in document order
ItemLists ==
  {<<>>, <<0>>, <<0, 4>>, <<4, 0>>, <<0, 2, 4>>, <<1, 3, 3>>, <<0, 2, 4, 6>>, <<0, 4, 10>>}

\* the offsets a region of client extent win can be at
Offsets(win) == 0..Max(0, maxScroll(TRUE, win))

\* one click of the current build: side, distance marker,
\* wrapper extent, region extent and offset; the extents are multiples of 4, of
\* which the percentages in use are whole numbers
ClickArgs ==
  {[NoArg EXCEPT !.fn = "performScroll", !.spec = d, !.position = s,
                 !.containerSize = cs, !.win = w, !.current = o] :
     d \in DistAttrs \cup MoreDistAttrs, s \in {"start", "end"}, cs \in WinSizes,
     w \in WinSizes, o \in 0..4}

\* one click of the legacy build: side, scroll marker, item-count marker,
\* items, region extent and offset
LegacyClickArgs ==
  {[NoArg EXCEPT !.fn = "handleIndicatorClick", !.spec = d, !.count = n, !.position = s,
                 !.positions = ps, !.win = w, !.current = o] :
     d \in DistAttrs \cup MoreDistAttrs, n \in CountAttrs, s \in {"start", "end"},
     ps \in {<<>>, <<0, 2, 4>>}, w \in WinSizes, o \in 0..4}

\* items, offset, item-count marker and direction of an item step
ItemArgs ==
  {[NoArg EXCEPT !.fn = "calculateNextItemScroll", !.count = n, !.position = s,
                 !.positions = ps, !.current = o] :
     n \in CountAttrs, s \in {"start", "end"}, ps \in ItemLists, o \in 0..4}

\* region extent and offset of a measurement
MeasureArgs ==
  {[NoArg EXCEPT !.fn = "getScrollInfo", !.win = w, !.current = o] :
     w \in FnSizes, o \in 0..4}

\* the keys of a patch handed to updateConfig, and the value it gives them
ConfigArgs ==
  {[NoArg EXCEPT !.fn = "updateConfig", !.patch = ks, !.value = v] :
     ks \in SUBSET PatchKeys, v \in PatchValues}

\* one call of parseScrollAmount: the spec, with or without a container
\* reference, the container's extent and the configured default
ParseArgs ==
  {[NoArg EXCEPT !.fn = "parseScrollAmount", !.spec = d, !.hasContainer = h,
                 !.containerSize = cs, !.fixed = fx] :
     d \in DistAttrs \cup MoreDistAttrs, h \in BOOLEAN, cs \in WinSizes, fx \in DefaultSpecs}

\* the builds that hold the function; the click handler that reads the
\* distance marker is that of the current build
FnBuilds(fn) ==
  IF fn = "performScroll" THEN {"current"}
  ELSE IF fn = "parseScrollAmount" THEN {"current", "previous"}
  ELSE IF fn = "getScrollInfo" THEN Builds
  ELSE {"legacy"}

\* a click target is activated: handleClick and performScroll
ApplyPerformScroll ==
  /\ arg.fn = "performScroll" /\ res = NotApplied
  /\ arg.current \in Offsets(arg.win)
  /\ LET parsedAmount == parseScrollAmount(clickScrollAmount(arg.spec), arg.containerSize)
         target == performScrollTarget(arg.spec, arg.position, arg.containerSize,
                                       TRUE, arg.current, arg.win)
     IN res' = [NotApplied EXCEPT !.fn = arg.fn, !.end = parsedAmount.end,
                                  !.n = parsedAmount.px,
                                  !.warn = parseScrollAmountWarns(clickScrollAmount(arg.spec)),
                                  !.after = ClampToRange(target, TRUE, arg.win)]
  /\ UNCHANGED <<publicVars, scrollEvt, smooth, arrived, build, profile, itemOffsets, observerSupported, arg, domVars, classes, listenerVars,
                 queueVars, initVars, legacyVars, refreshRuns, refreshApplied,
                 scrollRecomputes, lastClick>>

\* an indicator of the legacy build is clicked: handleIndicatorClick and
\* scrollContainer
ApplyHandleIndicatorClick ==
  /\ arg.fn = "handleIndicatorClick" /\ res = NotApplied
  /\ arg.current \in Offsets(arg.win)
  /\ LET amount == clickAmount(arg.position, arg.spec, arg.count, arg.positions,
                               TRUE, arg.current, arg.win)
     IN res' = [NotApplied EXCEPT !.fn = arg.fn, !.nan = amount.nan, !.n = amount.v,
                  !.warn = (legacyScrollAmount(arg.spec) = "next"
                            /\ nextItemWarns(arg.positions)),
                  !.after = scrollContainer(amount, TRUE, arg.current, arg.win)]
  /\ UNCHANGED <<publicVars, scrollEvt, smooth, arrived, build, profile, itemOffsets, observerSupported, arg, domVars, classes, listenerVars,
                 queueVars, initVars, legacyVars, refreshRuns, refreshApplied,
                 scrollRecomputes, lastClick>>

\* getCurrentItemIndex and calculateNextItemScroll on a list of items
ApplyCalculateNextItemScroll ==
  /\ arg.fn = "calculateNextItemScroll" /\ res = NotApplied
  /\ LET amount == calculateNextItemScroll(arg.positions, arg.current,
                                           nextAmountOf(arg.count), arg.position = "end")
     IN res' = [NotApplied EXCEPT !.fn = arg.fn, !.nan = amount.nan, !.n = amount.v,
                  !.warn = nextItemWarns(arg.positions),
                  !.idx = getCurrentItemIndex(arg.positions, arg.current),
                  !.after = IF Len(arg.positions) = 0 THEN -1
                            ELSE targetItemIndex(arg.positions, arg.current,
                                                 nextAmountOf(arg.count),
                                                 arg.position = "end")]
  /\ UNCHANGED <<publicVars, scrollEvt, smooth, arrived, build, profile, itemOffsets, observerSupported, arg, domVars, classes, listenerVars,
                 queueVars, initVars, legacyVars, refreshRuns, refreshApplied,
                 scrollRecomputes, lastClick>>

\* isAtStart and isAtEnd, getScrollInfo: the boundary flags of a region
ApplyGetScrollInfo ==
  /\ arg.fn = "getScrollInfo" /\ res = NotApplied
  /\ arg.current \in Offsets(arg.win)
  /\ res' = [NotApplied EXCEPT !.fn = arg.fn, !.n = maxScroll(TRUE, arg.win),
               !.atStart = isAtStart(scrollOffset(TRUE, arg.current)),
               !.atEnd = isAtEnd(scrollOffset(TRUE, arg.current), scrollExtent(TRUE),
                                 clientExtent(TRUE, arg.win))]
  /\ UNCHANGED <<publicVars, scrollEvt, smooth, arrived, build, profile, itemOffsets, observerSupported, arg, domVars, classes, listenerVars,
                 queueVars, initVars, legacyVars, refreshRuns, refreshApplied,
                 scrollRecomputes, lastClick>>

\* ScrollIndicators.updateConfig on the shipped configuration
ApplyUpdateConfig ==
  /\ arg.fn = "updateConfig" /\ res = NotApplied
  /\ res' = [NotApplied EXCEPT !.fn = arg.fn, !.config = updateConfig(CONFIG, arg.patch),
               !.threshold = updatedValue("SCROLL_THRESHOLD", NotApplied.threshold,
                                          arg.patch, arg.value)]
  /\ UNCHANGED <<publicVars, scrollEvt, smooth, arrived, build, profile, itemOffsets, observerSupported, arg, domVars, classes, listenerVars,
                 queueVars, initVars, legacyVars, refreshRuns, refreshApplied,
                 scrollRecomputes, lastClick>>

\* parseScrollAmount called on its own
ApplyParseScrollAmount ==
  /\ arg.fn = "parseScrollAmount" /\ res = NotApplied
  /\ LET r == parseScrollAmountOn(arg.spec, arg.hasContainer, arg.containerSize, arg.fixed, 0)
     IN res' = [NotApplied EXCEPT !.fn = arg.fn, !.end = r.end, !.n = r.px, !.threw = r.threw]
  /\ UNCHANGED <<publicVars, scrollEvt, smooth, arrived, build, profile, itemOffsets, observerSupported, arg, domVars, classes, listenerVars,
                 queueVars, initVars, legacyVars, refreshRuns, refreshApplied,
                 scrollRecomputes, lastClick>>

\* one input of one function, in a build that holds it, on a page at rest
InitFunctions ==
  /\ arg \in ClickArgs \cup LegacyClickArgs \cup ItemArgs \cup MeasureArgs \cup ConfigArgs
             \cup ParseArgs
  /\ build \in FnBuilds(arg.fn)
  /\ profile = [c \in Containers |-> CHOOSE f \in Profiles : TRUE]
  /\ rendered = [c \in Containers |-> TRUE]
  /\ winSize = arg.win
  /\ itemOffsets = arg.positions
  /\ observerSupported = TRUE
  /\ res = NotApplied
  /\ Quiet

NextFunctions ==
  \/ ApplyPerformScroll
  \/ ApplyHandleIndicatorClick
  \/ ApplyCalculateNextItemScroll
  \/ ApplyGetScrollInfo
  \/ ApplyUpdateConfig
  \/ ApplyParseScrollAmount

SpecFunctions == InitFunctions /\ [][NextFunctions]_vars

\* -------------------------------------------------------------------- claims
BothClasses == {VISIBLE, HIDDEN}

\* the side of the element a click lands on: the click target in the current
\* and the previous build, the indicator in the legacy build
ClickSide(c) ==
  IF build = "legacy" THEN profile[c].indicator
  ELSE validateClickTargetPosition(profile[c].clickTarget)

\* C1: after a refresh that was applied to a region, every bound element tagged
\* start is marked visible exactly when the offset is beyond the threshold from
\* the start, and every bound element tagged end exactly when the offset is more
\* than the threshold short of the largest offset; each by its own side.
StartEndRule ==
  \A c \in Containers : refreshApplied[c] =>
    \A k \in Kinds :
      LET offset == scrollOffset(rendered[c], scrollPos[c])
          largest == scrollExtent(rendered[c]) - clientExtent(rendered[c], winSize)
      IN /\ Side(build, c, k) = "start" =>
              (VISIBLE \in classes[c][k] <=> offset > threshold)
         /\ Side(build, c, k) = "end" =>
              (VISIBLE \in classes[c][k] <=> offset < largest - threshold)

\* C1 witness: a refresh was applied to a region scrolled to its end whose
\* start indicator is shown while its end click target is hidden
StartEndRuleWitness ==
  \E c \in Containers :
    /\ refreshApplied[c]
    /\ Side(build, c, "indicator") = "start" /\ Side(build, c, "clickTarget") = "end"
    /\ scrollPos[c] = maxScroll(rendered[c], winSize) /\ scrollPos[c] > threshold
    /\ VISIBLE \in classes[c]["indicator"]
    /\ HIDDEN \in classes[c]["clickTarget"]

\* C2 as stated: in every state every element bound to an active container
\* carries exactly one of the classes visible and hidden.
ExactlyOneClass ==
  \A c \in Containers : scrollL[c] > 0 =>
    \A k \in Kinds : Side(build, c, k) # Null =>
      Cardinality(classes[c][k] \cap BothClasses) = 1

\* C3 as stated: the teardown of an active container leaves none of its
\* listeners and observers attached: scroll, resize, observer, click, keydown.
CleanupDetachesAll ==
  [][\A c \in Containers :
       (handle[c] # "none" /\ handle'[c] = "none") =>
          /\ scrollL'[c] = 0
          /\ clickL'[c] = 0 /\ keyL'[c] = 0
          /\ resizeLeaked'[c] = 0 /\ observerLeaked'[c] = 0]_vars

\* C4 as stated: between two animation frames at most one scroll-triggered
\* recompute of a region runs.
ScrollRecomputeCoalesced ==
  \A c \in Containers : scrollRecomputes[c] <= 1

\* C5 as stated: a refresh invoked on a region that is not rendered reports
\* not applied and leaves the visible/hidden classes of the bound elements as
\* they were.
HiddenRefreshSkipped ==
  [][\A c \in Containers :
       (refreshRuns'[c] > 0 /\ ~rendered'[c]) =>
          /\ ~refreshApplied'[c]
          /\ \A k \in Kinds :
               classes'[c][k] \cap BothClasses = classes[c][k] \cap BothClasses]_vars

\* C6 as stated: initialize() called again on an active container, with no
\* cleanup in between, leaves its listeners and observers as they were.
InitializeIdempotent ==
  [][\A c \in Containers :
       ( /\ initCalls' = initCalls + 1
         /\ \/ handle[c] # "none"
            \/ (build = "legacy" /\ initialized /\ c \in registry) ) =>
          /\ scrollL'[c] = scrollL[c]
          /\ clickL'[c] = clickL[c] /\ keyL'[c] = keyL[c]
          /\ resizeLeaked'[c] = resizeLeaked[c]
          /\ observerLeaked'[c] = observerLeaked[c]
          /\ winResizeL' = winResizeL]_vars

\* the container passes the validation of the loaded build
Accepted(c) ==
  IF build = "legacy"
    THEN profile[c].axis # "absent" /\ validateContainer(profile[c].axis)
    ELSE Validated(c)

\* C7 as stated: once initialize() was called, every well-formed container
\* whose own setup did not raise is activated, whatever happened to the others
\* and wherever it stands in the document.
SiblingsStillActivate ==
  initCalls > 0 =>
    \A c \in Containers : (Accepted(c) /\ faulted[c] = "none") => scrollL[c] > 0

\* C8 as stated: initialize() never raises, and what it returns is the number
\* of containers it activated.
InitializeReturnsCount ==
  initCalls > 0 => initReturn = [kind |-> "number", n |-> Cardinality(activated)]

\* the container has a region with a recognised axis and at least one element
\* with a recognised side
WellFormed(c) ==
  /\ TrimLower(profile[c].axis) \in {"horizontal", "vertical"}
  /\ \/ TrimLower(profile[c].indicator) \in {"start", "end"}
     \/ TrimLower(profile[c].clickTarget) \in {"start", "end"}

\* C9 as stated: a container that is not well-formed gets no listener and no
\* class change.
OnlyWellFormedActivated ==
  \A c \in Containers : ~WellFormed(c) =>
    /\ scrollL[c] = 0 /\ clickL[c] = 0 /\ keyL[c] = 0
    /\ handle[c] = "none"
    /\ \A k \in Kinds : classes[c][k] = {}

\* C10: the offset a click brings the region to lies between 0 and the largest
\* offset; a 200px request, larger than any offset here, brings the region to
\* offset 0 from the start side and to the largest offset from the end side.
ScrollRequestClamped ==
  res.fn \in {"performScroll", "handleIndicatorClick"} =>
    LET largest == Max(0, ContentExtent - arg.win)
    IN /\ res.after >= 0 /\ res.after <= largest
       /\ arg.spec = "200px" =>
             /\ arg.position = "start" => res.after = 0
             /\ arg.position = "end" => res.after = largest

\* C10 witness: a 200px click on the end side has brought a region that
\* overflows by 4 from offset 1 to its largest offset
ScrollRequestClampedWitness ==
  /\ res.fn = "performScroll" /\ arg.spec = "200px" /\ arg.position = "end"
  /\ arg.win = ContentExtent - 4 /\ arg.current = 1
  /\ res.after = 4

\* C11: a click whose distance marker reads "end" brings the region to offset
\* 0 when it came from the start side and to its largest offset when it came
\* from the end side, wherever the region was before.
BoundaryRequestJumps ==
  (res.fn \in {"performScroll", "handleIndicatorClick"} /\ arg.spec = "end") =>
    /\ arg.position = "start" => res.after = 0
    /\ arg.position = "end" => res.after = Max(0, ContentExtent - arg.win)

\* C11 witness: an "end" click from the start side has brought a region from
\* offset 3 to offset 0
BoundaryRequestJumpsWitness ==
  /\ res.fn = "performScroll" /\ arg.spec = "end" /\ arg.position = "start"
  /\ arg.current = 3
  /\ res.end /\ res.after = 0

\* the distance markers that carry a number, and those that carry a percentage
NumericSpecs == {"200px", "-200px", "50%", "-50%"}
PercentSpecs == {"50%", "-50%"}

\* the distance markers without a distance: a unit without a number, a word
InvalidSpecs == {"px", "abc"}

IsClick == res.fn \in {"performScroll", "handleIndicatorClick"}

\* C12: a click whose marker carries a number, of either sign, never leaves
\* the region further from the start when it came from the start side, nor
\* nearer to it when it came from the end side; the click-target builds
\* resolve the number to a non-negative magnitude.
SignAppliedBySide ==
  (IsClick /\ arg.spec \in NumericSpecs) =>
    /\ arg.position = "start" => res.after <= arg.current
    /\ arg.position = "end" => res.after >= arg.current
    /\ res.fn = "performScroll" => res.n >= 0

\* C13, as stated: a percentage marker resolves to that share of the region's
\* own client extent.
PercentOfRegionExtent ==
  (IsClick /\ arg.spec \in PercentSpecs) =>
    /\ ~res.nan
    /\ res.n * 100 = SpecNumber(arg.spec) * arg.win * (IF arg.position = "start" /\ res.fn = "handleIndicatorClick" THEN -1 ELSE 1)

\* C13, amended: a percentage marker resolves to a distance whose magnitude is
\* that share of the client extent of the container: the wrapper in the
\* click-target builds, the region itself in the legacy build.
PercentOfContainerExtent ==
  (IsClick /\ arg.spec \in PercentSpecs) =>
    /\ ~res.nan
    /\ res.fn = "performScroll" =>
          res.n * 100 = Abs(SpecNumber(arg.spec)) * arg.containerSize
    /\ res.fn = "handleIndicatorClick" =>
          Abs(res.n) * 100 = Abs(SpecNumber(arg.spec)) * arg.win

\* C13 witness: 50% of a wrapper of extent 8 around a region of extent 4 has
\* resolved to 4
PercentOfContainerExtentWitness ==
  /\ res.fn = "performScroll" /\ arg.spec = "50%"
  /\ arg.containerSize = 8 /\ arg.win = 4
  /\ res.n = 4

\* C14: a click without a distance marker, or with an empty one, resolves to
\* the boundary jump when the build's configuration says scroll-to-end and to
\* what the configured fixed amount resolves to otherwise.
MissingSpecUsesConfiguredDefault ==
  (IsClick /\ arg.spec \in {"absent", ""}) =>
    /\ res.fn = "performScroll" =>
          IF SCROLL_TO_END THEN res.end
          ELSE /\ ~res.end
               /\ res.n = parseScrollAmount(FIXED_AMOUNT, arg.containerSize).px
    /\ res.fn = "handleIndicatorClick" =>
          res.n = clickAmount(arg.position,
                              IF LEGACY_SCROLL_TO_END THEN "end" ELSE LEGACY_FIXED_AMOUNT,
                              arg.count, arg.positions, TRUE, arg.current, arg.win).v

\* C15: a click whose marker is a unit without a number, or a word that is no
\* distance, resolves to exactly what the configured fixed amount resolves
\* to, and to no NaN; the click-target builds log a warning.
InvalidSpecUsesDefault ==
  (IsClick /\ arg.spec \in InvalidSpecs) =>
    /\ ~res.nan
    /\ res.fn = "performScroll" =>
          /\ res.warn
          /\ res.end = parseScrollAmount(FIXED_AMOUNT, arg.containerSize).end
          /\ res.n = parseScrollAmount(FIXED_AMOUNT, arg.containerSize).px
    /\ res.fn = "handleIndicatorClick" =>
          res.n = clickAmount(arg.position, LEGACY_FIXED_AMOUNT, arg.count, arg.positions,
                              TRUE, arg.current, arg.win).v

\* the distance of item i (counted from 0) from the offset
ItemDistance(i) == Abs(arg.positions[i + 1] - arg.current)

\* C16: the current item is one at the smallest distance from the offset, and
\* of several such items the one with the lowest index.
NearestItemLowestIndex ==
  (res.fn = "calculateNextItemScroll" /\ Len(arg.positions) > 0) =>
    /\ res.idx \in 0..(Len(arg.positions) - 1)
    /\ \A j \in 0..(Len(arg.positions) - 1) :
         /\ ItemDistance(res.idx) <= ItemDistance(j)
         /\ ItemDistance(res.idx) = ItemDistance(j) => res.idx <= j

\* C16 witness: the offset lies midway between two items and the first of
\* them is the current item
NearestItemLowestIndexWitness ==
  /\ res.fn = "calculateNextItemScroll"
  /\ arg.positions = <<0, 4>> /\ arg.current = 2
  /\ res.idx = 0

\* C17: the index an item step goes to is the index of an item, whatever the
\* items, the offset, the item-count marker and the direction.
StepTargetInRange ==
  (res.fn = "calculateNextItemScroll" /\ Len(arg.positions) > 0) =>
    res.after \in 0..(Len(arg.positions) - 1)

\* C18: a "next" click on a region without items resolves to the amount 0 with
\* a warning, and leaves the region at the offset it was at.
NoItemsNoMove ==
  (res.fn = "handleIndicatorClick" /\ arg.spec = "next" /\ arg.positions = <<>>) =>
    /\ ~res.nan /\ res.n = 0
    /\ res.warn
    /\ res.after = arg.current

\* C18 witness: such a click on a region scrolled to offset 2 has left it there
NoItemsNoMoveWitness ==
  /\ res.fn = "handleIndicatorClick" /\ arg.spec = "next" /\ arg.positions = <<>>
  /\ arg.current = 2 /\ res.after = 2 /\ res.warn

\* C19: right after a refresh of a container, a second refresh against the
\* same offset and extents would write the classes that are already there.
RefreshIdempotent ==
  \A c \in Containers : refreshRuns[c] > 0 =>
    RefreshedClasses(c, classes[c], rendered[c], scrollPos[c], winSize) = classes[c]

\* C19 witness: a refresh has been applied to a container and has set classes
RefreshIdempotentWitness ==
  \E c \in Containers :
    /\ refreshRuns[c] > 0 /\ refreshApplied[c]
    /\ \E k \in Kinds : classes[c][k] # {}

\* both sides of a measured region are hidden
BothHidden ==
  /\ ~ShouldBeVisible("start", res.atStart, res.atEnd)
  /\ ~ShouldBeVisible("end", res.atStart, res.atEnd)

\* C20, as stated: both sides are hidden at once only in a region without
\* overflow, and there at every offset.
BothHiddenOnlyWithoutOverflow ==
  res.fn = "getScrollInfo" => (BothHidden <=> res.n = 0)

\* C20, amended: both sides are hidden at once only in a region whose largest
\* offset is at most twice the threshold, and at every offset where it is at
\* most the threshold.
BothHiddenWithinThreshold ==
  res.fn = "getScrollInfo" =>
    /\ BothHidden => res.n <= 2 * threshold
    /\ res.n <= threshold => BothHidden

\* C20 witness: a region that overflows by 2 is at offset 1, both sides hidden
BothHiddenWithinThresholdWitness ==
  /\ res.fn = "getScrollInfo" /\ res.n = 2 /\ arg.current = 1
  /\ BothHidden

\* C21: the largest offset of a measured region is its scroll extent less its
\* client extent; the region is at its start exactly when the offset is at
\* most the threshold and at its end exactly when the offset is at least the
\* largest offset less the threshold, so also one pixel before the end.
BoundaryFlagsFromMetrics ==
  res.fn = "getScrollInfo" =>
    /\ res.n = ContentExtent - arg.win
    /\ res.atStart <=> arg.current <= threshold
    /\ res.atEnd <=> arg.current >= (ContentExtent - arg.win) - threshold

\* C21 witness: a region that overflows by 4 is measured at offset 3 and is
\* at its end, not at its start
BoundaryFlagsFromMetricsWitness ==
  /\ res.fn = "getScrollInfo" /\ res.n = 4 /\ arg.current = 3
  /\ threshold = 1
  /\ res.atEnd /\ ~res.atStart

ResizeDebounced ==
  [][\A c \in Containers :
       /\ winSize' # winSize => refreshRuns'[c] = 0
       /\ ( /\ winSize' = winSize
            /\ PendingTimers(c) > 0 /\ PendingTimers(c)' = 0
            /\ isElementVisible(rendered[c], winSize) ) => refreshRuns'[c] = 1]_vars

\* every bound element of container c carries the class the start/end rule
\* gives it at the region's offset
FitsRule(c) ==
  \A k \in Kinds :
    LET offset == scrollOffset(rendered[c], scrollPos[c])
        largest == scrollExtent(rendered[c]) - clientExtent(rendered[c], winSize)
        shown == IF Side(build, c, k) = "start" THEN offset > threshold
                 ELSE offset < largest - threshold
    IN Side(build, c, k) # Null =>
         classes[c][k] \cap BothClasses = (IF shown THEN {VISIBLE} ELSE {HIDDEN})

\* C24 as stated: when the hidden region of an active container is shown, a
\* refresh is applied and the classes fit the region's offset.
ShownRegionRefreshed ==
  [][\A c \in Containers :
       (handle[c] # "none" /\ ~rendered[c] /\ rendered'[c]) =>
          (refreshApplied'[c] /\ FitsRule(c)')]_vars

\* C24, amended: so it is in a browser that has IntersectionObserver.
ShownRegionRefreshedByObserver ==
  [][\A c \in Containers :
       (observerSupported /\ handle[c] # "none" /\ ~rendered[c] /\ rendered'[c]) =>
          (refreshApplied'[c] /\ FitsRule(c)')]_vars

\* C24 witness: a region that was hidden when its container was activated has
\* been shown, and the observer's refresh has set the classes
ShownRegionRefreshedByObserverWitness ==
  \E c \in Containers :
    /\ handle[c] = "resize+observer" /\ rendered[c]
    /\ refreshRuns[c] > 0 /\ refreshApplied[c]
    /\ \E k \in Kinds : classes[c][k] \cap BothClasses # {}

\* C25: a cleanup that finds no stored handle leaves every listener, observer,
\* timer and class as it was.
CleanupIdempotent ==
  [][(cleanupScrollIndicators /\ \A c \in Containers : handle[c] = "none") =>
       UNCHANGED <<domVars, classes, listenerVars, queueVars>>]_vars

\* C25 witness: a container that was set up has been cleaned up; a further
\* cleanup finds it so
CleanupIdempotentWitness ==
  /\ build = "current" /\ initCalls > 0
  /\ \A c \in Containers : handle[c] = "none"
  /\ \E c \in Containers : scrollL[c] > 0 /\ resizeLeaked[c] = 0

\* C26 as stated: a container that leaves the registry has no scroll listener
\* left, and scrolling a region that is not registered changes no class.
UnregisterDetaches ==
  [][\A c \in Containers :
       /\ (c \in registry /\ c \notin registry') => scrollL'[c] = 0
       /\ (c \notin registry /\ scrollPos'[c] # scrollPos[c]) => classes'[c] = classes[c]]_vars

\* C27 as stated: an activation on a container that was set up with the click
\* marker "true" makes exactly one scroll request, by click or by key; one on
\* a container whose click marker is not "true" makes none.
ClickOnlyWhenEnabled ==
  lastClick.c # "none" =>
    LET c == lastClick.c
    IN /\ (profile[c].click = "true" /\ scrollL[c] > 0) => lastClick.requests = 1
       /\ TrimLower(profile[c].click) # "true" => lastClick.requests = 0

\* C28: after updateConfig the configuration has the keys it had, the keys of
\* the patch that are on the allow-list hold the patch's value and every
\* other key holds the value it had.
UpdateConfigAllowList ==
  res.fn = "updateConfig" =>
    /\ DOMAIN res.config = ConfigKeys
    /\ \A k \in ConfigKeys :
         res.config[k] =
           (IF k \in arg.patch /\ k \in {"SCROLL_BEHAVIOR", "SCROLL_THRESHOLD", "DEBUG"}
              THEN "patched" ELSE CONFIG[k])

\* C28 witness: a patch naming the attribute prefix, the class names and the
\* debug flag has changed the debug flag alone
UpdateConfigAllowListWitness ==
  /\ res.fn = "updateConfig"
  /\ arg.patch = {"ATTRIBUTE_PREFIX", "CSS_CLASSES", "DEBUG"}
  /\ res.config["DEBUG"] = "patched"
  /\ res.config["ATTRIBUTE_PREFIX"] = "shipped" /\ res.config["CSS_CLASSES"] = "shipped"

\* C29: whenever a scroll event has requested a frame, the frame comes, and
\* once it has run the classes of a visible region fit the offset the region
\* is at.
LastScrollAuthoritative ==
  \A c \in Containers :
    (rafQ[c] > 0) ~> (rafQ[c] = 0 /\ (isElementVisible(rendered[c], winSize) => FitsRule(c)))

\* C29 witness: the frame after a scroll to the end of an overflowing region
\* has run and shows the start side
LastScrollAuthoritativeWitness ==
  \E c \in Containers :
    /\ scrollRecomputes[c] = 1 /\ rafQ[c] = 0 /\ refreshApplied[c]
    /\ scrollPos[c] = maxScroll(TRUE, winSize) /\ scrollPos[c] > threshold
    /\ \E k \in Kinds : Side(build, c, k) = "start" /\ VISIBLE \in classes[c][k]

\* C30 as stated: a region whose refresh has just been skipped because it is
\* hidden is observed by a watcher, where the browser has one.
SkippedRefreshArmsWatcher ==
  \A c \in Containers :
    (observerSupported /\ refreshRuns[c] > 0 /\ ~refreshApplied[c] /\ ~rendered[c]) =>
      Observers(c) > 0

\* C31 as stated: when initialize() runs on a container that was set up and
\* then cleaned up, the container ends with the listeners of a fresh one: one
\* scroll listener, so that a scroll event requests one recompute per frame,
\* and on an enabled click target one click and one keydown listener, so that
\* an activation makes one scroll request.
ReinitializedLikeFresh ==
  [][\A c \in Containers :
       ( /\ build = "current"
         /\ scrollL[c] > 0 /\ handle[c] = "none"
         /\ initCalls' = initCalls + 1 /\ c \in activated' ) =>
           /\ scrollL'[c] = 1
           /\ clickL'[c] <= 1 /\ keyL'[c] <= 1]_vars

\* C32 as stated: a container that was set up and whose cleanup has returned
\* sees no further refresh.
NoRecomputeAfterCleanup ==
  \A c \in Containers :
    (build = "current" /\ scrollL[c] > 0 /\ handle[c] = "none") => refreshRuns[c] = 0

\* C33 as stated: every call of parseScrollAmount returns, a pixel count or
\* the boundary word, whatever the spec, the configured default and the
\* container reference.
DistanceResolutionTerminates ==
  res.fn = "parseScrollAmount" => ~res.threw

\* C36 as stated: after updateConfig with any patch the scroll threshold is a
\* number and not negative.
ThresholdNonNegative ==
  res.fn = "updateConfig" => (res.threshold.kind = "number" /\ res.threshold.v >= 0)

\* C37 as stated: a click whose distance spec is written in upper case with
\* surrounding blanks moves the region to where the same click with the
\* trimmed lower-case spec moves it.
CaseAndPaddingIgnored ==
  /\ (res.fn = "performScroll" /\ arg.spec = " END ") =>
        res.after = ClampToRange(performScrollTarget("end", arg.position, arg.containerSize,
                                                     TRUE, arg.current, arg.win),
                                 TRUE, arg.win)
  /\ (res.fn = "handleIndicatorClick" /\ arg.spec = " END ") =>
        res.after = scrollContainer(clickAmount(arg.position, "end", arg.count, arg.positions,
                                                TRUE, arg.current, arg.win),
                                    TRUE, arg.current, arg.win)

\* C38: on a list with items, where the nearest item's index moved by the
\* count (and kept within the list from the side it moves to) names an item,
\* the nearest index is that of an item at the least distance, the target is
\* that moved index and the delta is the target item's offset minus the
\* current offset.
ItemStepDelta ==
  res.fn = "calculateNextItemScroll" /\ Len(arg.positions) > 0 =>
    LET n == nextAmountOf(arg.count)
        target == IF arg.position = "end" THEN Min(res.idx + n, Len(arg.positions) - 1)
                  ELSE Max(res.idx - n, 0)
    IN /\ res.idx \in 0..(Len(arg.positions) - 1)
       /\ \A i \in 0..(Len(arg.positions) - 1) :
            ItemDistance(res.idx) <= ItemDistance(i)
       /\ res.after = target
       /\ target \in 0..(Len(arg.positions) - 1) =>
            (~res.nan /\ res.n = arg.positions[target + 1] - arg.current)

\* C38 witness: items at 0, 4 and 10, the region at 3, one step forward: the
\* nearest index is 1, the target 2 and the delta 7
ItemStepDeltaWitness ==
  /\ res.fn = "calculateNextItemScroll"
  /\ arg.positions = <<0, 4, 10>> /\ arg.current = 3
  /\ arg.position = "end" /\ arg.count = "absent"
  /\ res.idx = 1 /\ res.after = 2 /\ ~res.nan /\ res.n = 7

\* the offsets do not decrease along the list
NonDecreasing(positions) ==
  \A i \in 1..(Len(positions) - 1) : positions[i] <= positions[i + 1]

\* C39 as stated: with item offsets that do not decrease and a positive
\* count, a forward step has a delta of 0 or more and a backward step a delta
\* of 0 or less.
StepNeverAgainstSide ==
  ( /\ res.fn = "calculateNextItemScroll"
    /\ NonDecreasing(arg.positions)
    /\ nextAmountOf(arg.count) >= 1 ) =>
      /\ ~res.nan
      /\ arg.position = "end" => res.n >= 0
      /\ arg.position = "start" => res.n <= 0

\* C34 as stated: after the smooth scroll a click asked for has brought the
\* region to its target, a refresh follows and the classes of the container
\* come to fit the offset the region is at.
ClickThenRefreshed ==
  \A c \in Containers : (arrived = c) ~> FitsRule(c)

\* C40: a step that is a refresh and nothing else (the animation-frame
\* callback, the timer after a click) leaves the regions' geometry and offsets,
\* the smooth scrolls under way, the configuration and every listener as they
\* were, changes no class other than the visible
\* and the hidden one, and changes no class of an element that is not bound
\* by a side or whose container was not refreshed.
RefreshWritesOnlyClasses ==
  [][(AnimationFrame \/ \E c \in Containers : SettleElapsed(c)) =>
       /\ UNCHANGED <<domVars, listenerVars, publicVars, scrollEvt, smooth>>
       /\ \A c \in Containers : \A k \in Kinds :
            /\ classes'[c][k] \ BothClasses = classes[c][k] \ BothClasses
            /\ (Side(build, c, k) = Null \/ refreshRuns'[c] = 0) =>
                  classes'[c][k] = classes[c][k]]_vars

\* C40 witness: the frame after a click has refreshed a click target that
\* carries the click-target class, and shows it
RefreshWritesOnlyClassesWitness ==
  \E c \in Containers :
    /\ scrollRecomputes[c] > 0 /\ refreshRuns[c] > 0 /\ refreshApplied[c]
    /\ {IS_CLICK_TARGET, VISIBLE} \subseteq classes[c]["clickTarget"]

\* C35 as stated: the classes of a container's elements change only in a step
\* in which that container's own refresh runs, also on a page with nested
\* containers.
ElementsOfOneContainer ==
  [][\A d \in Containers : classes'[d] # classes[d] => refreshRuns'[d] > 0]_vars

====
